---- MODULE Spec2Model ----
(***************************************************************************)
(* helm-charts-oci-proxy: the manifest handlers, prepareChart, the index   *)
(* cache, the in-memory blob store and the eviction loop.                  *)
(*                                                                         *)
(* Strings are sequences of tokens (a token is a TLA+ string standing for  *)
(* one or more bytes, e.g. "v", "1.0.0", "+", "_").  The tokens are        *)
(* prefix-free, so prefix tests, replacement and lexicographic order on    *)
(* token sequences agree with the byte-wise operations of the Go code.     *)
(***************************************************************************)
EXTENDS Integers, Sequences, FiniteSets, TLC

VARIABLES
    manifests,   \* Manifests.manifests: repo -> (tag or digest) -> Manifest
    blobs,       \* mem.Handler.m: digest -> bytes
    cache,       \* Manifests.cache (ristretto): key -> cacheResp with expiry
    now,         \* wall clock, time.Now()
    upstream,    \* per upstream host: what the host answers at the moment
    config,      \* manifest.Config: the process-wide settings
    tsInput,     \* the *repo.ChartVersion a caller hands to the timestamp function
    stamp,       \* the time.Time that call returned (set: it has returned)
    call,        \* the arguments of a function called on its own
    result       \* what that call returned (set: it has returned)

vars == <<manifests, blobs, cache, now, upstream, config, tsInput, stamp, call, result>>

----------------------------------------------------------------------------
(* Bounds of the model.                                                    *)

MaxTime == 2            \* the clock runs 0..MaxTime
CacheTTL == 1           \* config.CacheTTL, in clock units
IndexCacheTTL == 2      \* config.IndexCacheTTL, in clock units
IndexErrorCacheTTl == 1 \* config.IndexErrorCacheTTl, in clock units

----------------------------------------------------------------------------
(* Strings.                                                                *)

EmptyStr == <<>>

\* Byte order of the tokens (ASCII order of their first differing byte).
TokRank(t) ==
    CASE t = "+"       -> 1
      [] t = "-"       -> 2
      [] t = "/"       -> 3
      [] t = "1.0.0"   -> 4
      [] t = "2.0.0"   -> 5
      [] t = "3.0.0"   -> 6
      [] t = "_"       -> 7
      [] t = "b"       -> 8
      [] t = "c"       -> 9
      [] t = "h1"      -> 10
      [] t = "h2"      -> 11
      [] t = "rc"      -> 12
      [] t = "sha256:" -> 13
      [] t = "v"       -> 14
      [] OTHER         -> 15   \* file names and other tokens that are never ordered

\* Go's string comparison a < b.
RECURSIVE StrLess(_, _)
StrLess(a, b) ==
    IF b = <<>> THEN FALSE
    ELSE IF a = <<>> THEN TRUE
    ELSE IF a[1] = b[1] THEN StrLess(Tail(a), Tail(b))
    ELSE TokRank(a[1]) < TokRank(b[1])

HasPrefix(s, t) == Len(s) > 0 /\ s[1] = t

TrimPrefix(s, t) == IF HasPrefix(s, t) THEN Tail(s) ELSE s

RECURSIVE TrimLeft(_, _)
TrimLeft(s, t) == IF HasPrefix(s, t) THEN TrimLeft(Tail(s), t) ELSE s

Contains(s, t) == \E i \in 1..Len(s) : s[i] = t

ReplaceAll(s, old, new) == [i \in 1..Len(s) |-> IF s[i] = old THEN new ELSE s[i]]

\* strings.Replace(s, old, new, 1): the first occurrence only
ReplaceFirst(s, old, new) ==
    [i \in 1..Len(s) |->
        IF s[i] = old /\ (\A j \in 1..(i - 1) : s[j] # old) THEN new ELSE s[i]]

\* The earlier helper.SemVerReplace, guarded by a check of its input
SemVerReplaceGuarded(semver) ==
    IF semver # <<>> /\ Contains(semver, "_") THEN ReplaceAll(semver, "_", "+") ELSE semver

\* SemVerReplace replacing the first "_" only
SemVerReplaceFirst(semver) == ReplaceFirst(semver, "_", "+")

\* helper.SemVerReplace
SemVerReplace(semver) == ReplaceAll(semver, "_", "+")

\* sort.Strings: insertion of one string into a sorted sequence.
RECURSIVE InsertSorted(_, _)
InsertSorted(x, s) ==
    IF s = <<>> THEN <<x>>
    ELSE IF StrLess(s[1], x) THEN <<s[1]>> \o InsertSorted(x, Tail(s))
    ELSE <<x>> \o s

RECURSIVE SortStrings(_)
SortStrings(s) == IF s = <<>> THEN <<>> ELSE InsertSorted(s[1], SortStrings(Tail(s)))

----------------------------------------------------------------------------
(* Digests: "sha256:" followed by the hex of the hash.  The hash is        *)
(* collision free; its hex is represented by the hashed bytes themselves.  *)

Sha256Hex(bytes) == bytes

DigestFromBytes(bytes) == <<"sha256:">> \o Sha256Hex(bytes)

\* v1.NewHash: parses "sha256:<hex>".
NewHashOk(s) == Len(s) > 1 /\ s[1] = "sha256:"

----------------------------------------------------------------------------
(* strings.Split / strings.Join with the separator "/".                    *)

RECURSIVE Split(_)
Split(s) ==
    IF ~Contains(s, "/") THEN <<s>>
    ELSE LET i == CHOOSE k \in 1..Len(s) : s[k] = "/" /\ \A j \in 1..(k-1) : s[j] # "/"
         IN  <<SubSeq(s, 1, i-1)>> \o Split(SubSeq(s, i+1, Len(s)))

RECURSIVE Join(_)
Join(parts) ==
    IF parts = <<>> THEN <<>>
    ELSE IF Len(parts) = 1 THEN parts[1]
    ELSE parts[1] \o <<"/">> \o Join(Tail(parts))

----------------------------------------------------------------------------
(* Time values of the chart index (repo.ChartVersion.Created) and of the   *)
(* created annotation: Unix seconds as hi * 2^16 + lo, and nanoseconds.    *)

ZeroTime == [hi |-> 0, lo |-> 0, nsec |-> 0]

IsZero(t) == t = ZeroTime

\* time.Date(2020, 1, 1, 0, 0, 0, 0, time.UTC) = 1577836800 = 24075 * 2^16 + 57600
baseTime == [hi |-> 24075, lo |-> 57600, nsec |-> 0]

\* t.Add(time.Duration(offset) * time.Second), offset = offHi * 2^16 + offLo
AddSeconds(t, offHi, offLo) ==
    [hi   |-> t.hi + offHi + ((t.lo + offLo) \div 65536),
     lo   |-> (t.lo + offLo) % 65536,
     nsec |-> t.nsec]

\* t.Format(time.RFC3339): whole seconds, the fraction is dropped.
FormatRFC3339(t) == <<ToString(t.hi), ToString(t.lo), "Z">>

\* The first 4 bytes of sha256.Sum256(s): a fixed function of the bytes of s.
RECURSIVE HashFold(_, _)
HashFold(s, h) ==
    IF s = <<>> THEN h ELSE HashFold(Tail(s), (h * 31 + TokRank(s[1]) * 7919 + 17) % 65536)

Sha256First4(s) ==
    LET a == HashFold(s, 40503)
        b == HashFold(s, a)
    IN  <<a \div 256, a % 256, b \div 256, b % 256>>

\* The fallback taken from the wall clock instead of the hash.
getDeterministicCreatedTimestampNow(chartVer) ==
    IF ~IsZero(chartVer.Created) THEN chartVer.Created
    ELSE AddSeconds(baseTime, 0, now)

\* getDeterministicCreatedTimestamp
getDeterministicCreatedTimestamp(chartVer) ==
    IF ~IsZero(chartVer.Created) THEN chartVer.Created
    ELSE LET hash == Sha256First4(chartVer.Name \o <<"@">> \o chartVer.Version)
             \* int64(hash[0])<<24 | int64(hash[1])<<16 | int64(hash[2])<<8 | int64(hash[3])
             offHi == hash[1] * 256 + hash[2]
             offLo == hash[3] * 256 + hash[4]
         IN  AddSeconds(baseTime, offHi, offLo)

----------------------------------------------------------------------------
(* Semantic versions as the helm index and Masterminds/semver read them:   *)
(* an optional "v", a version core, optional "+" build metadata.           *)

Cores == {"1.0.0", "2.0.0", "3.0.0"}

CoreNum(t) == CASE t = "1.0.0" -> 1 [] t = "2.0.0" -> 2 [] t = "3.0.0" -> 3 [] OTHER -> 0

MetaTokens == {"b"}

\* semver.NewVersion / semver.NewConstraint accept the string.
ValidSemver(s) ==
    LET t == TrimPrefix(s, "v")
    IN  /\ Len(t) \in {1, 3}
        /\ t[1] \in Cores
        /\ Len(t) = 3 => (t[2] = "+" /\ t[3] \in MetaTokens)

\* The comparable part of a version (build metadata is not compared).
SemverCore(s) == CoreNum(TrimPrefix(s, "v")[1])

\* repo.IndexFile.Get(name, version)
NoChartVersion == [Name |-> <<>>, Version |-> <<>>, URLs |-> <<>>, Created |-> ZeroTime]

IndexGet(index, name, version) ==
    IF name \notin DOMAIN index.Entries \/ index.Entries[name] = <<>>
    THEN [err |-> TRUE, cv |-> NoChartVersion]
    ELSE IF version # <<>> /\ ~ValidSemver(version)
    THEN [err |-> TRUE, cv |-> NoChartVersion]          \* improper constraint
    ELSE LET vs == index.Entries[name]
             exact == {i \in 1..Len(vs) : version # <<>> /\ vs[i].Version = version}
             check == {i \in 1..Len(vs) :
                          /\ ValidSemver(vs[i].Version)
                          /\ version # <<>> => SemverCore(vs[i].Version) = SemverCore(version)}
             First(S) == CHOOSE i \in S : \A j \in S : i <= j
         IN  IF exact # {} THEN [err |-> FALSE, cv |-> vs[First(exact)]]
             ELSE IF check # {} THEN [err |-> FALSE, cv |-> vs[First(check)]]
             ELSE [err |-> TRUE, cv |-> NoChartVersion]

\* repo.IndexFile.SortEntries: each chart's versions in descending order.
RECURSIVE InsertDesc(_, _)
InsertDesc(x, s) ==
    IF s = <<>> THEN <<x>>
    ELSE IF SemverCore(s[1].Version) > SemverCore(x.Version) THEN <<s[1]>> \o InsertDesc(x, Tail(s))
    ELSE <<x>> \o s

RECURSIVE SortDesc(_)
SortDesc(s) == IF s = <<>> THEN <<>> ELSE InsertDesc(s[1], SortDesc(Tail(s)))

SortEntries(entries) == [n \in DOMAIN entries |-> SortDesc(entries[n])]

----------------------------------------------------------------------------
(* The upstream Helm repositories.                                         *)

Hosts == {"h1", "h2"}

\* What a host answers: "ok" serves index.yaml and tarballs, "bad" serves an
\* index.yaml that does not parse, "down" fails every request.
UpstreamModes == {"ok", "bad", "down"}

RelURL(file) == <<file>>
AbsURL(host, file) == <<"https://", host, "/", file>>

\* index.yaml of each host as written by its publisher (file order); the
\* chart b of h2 is listed without a download URL.
IndexYaml(host) ==
    IF host = "h1"
    THEN [Entries |-> (<<"c">> :>
            << [Name |-> <<"c">>, Version |-> <<"1.0.0", "+", "b">>,
                URLs |-> <<AbsURL("h1", "c-1.tgz")>>,
                Created |-> [hi |-> 25000, lo |-> 7, nsec |-> 5]],
               [Name |-> <<"c">>, Version |-> <<"v", "2.0.0">>,
                URLs |-> <<RelURL("c-2.tgz")>>,
                Created |-> ZeroTime] >>)]
    ELSE [Entries |-> (<<"c">> :>
            << [Name |-> <<"c">>, Version |-> <<"2.0.0">>,
                URLs |-> <<RelURL("c-2.tgz")>>,
                Created |-> ZeroTime] >>)
          @@ (<<"b">> :>
            << [Name |-> <<"b">>, Version |-> <<"1.0.0">>,
                URLs |-> <<>>,
                Created |-> ZeroTime] >>)]

\* The chart archives the hosts serve, by file name (h2 mirrors c-2.tgz).
Tarball(file) == IF file = "c-2.tgz" THEN <<"tgz-c-2">> ELSE <<"tgz-c-1">>

\* (*repo.IndexFile)(nil) and repo.NewIndexFile()
NilIndex == [isNil |-> TRUE, Entries |-> <<>>]
NewIndexFile == [isNil |-> FALSE, Entries |-> <<>>]

----------------------------------------------------------------------------
(* Errors (errors.RegError).                                               *)

NoErr == [Status |-> 0, Code |-> ""]
RegError(status, code) == [Status |-> status, Code |-> code]
RegErrInternal == RegError(500, "INTERNAL_SERVER_ERROR")

----------------------------------------------------------------------------
(* The index cache (Cache interface over ristretto) and the fetcher.       *)

CacheHit(c, key, t) == key \in DOMAIN c /\ t < c[key].expire

\* The entry is admitted and visible to the next Get.
SetWithTTL(c, key, val, err, ttl, t) ==
    (key :> [c |-> val, err |-> err, expire |-> t + ttl]) @@ c

UrlHost(url) == url[2]
UrlFile(url) == url[Len(url)]

\* A host that answers every request with the status 404 and an error page.
NotFound == "notfound"

\* Manifests.download: http.Get(url) and io.ReadAll of the body; http.Get
\* returns no error for a response of any status, and the status is not
\* looked at.
download(up, url) ==
    IF UrlHost(url) \notin Hosts \/ up[UrlHost(url)] = "down"
    THEN [c |-> <<>>, err |-> "net"]
    ELSE IF up[UrlHost(url)] = NotFound
    THEN [c |-> <<"404 page not found">>, err |-> ""]
    ELSE IF UrlFile(url) = "index.yaml"
    THEN IF up[UrlHost(url)] = "ok" /\ Len(url) = 4
         THEN [c |-> <<"index.yaml", UrlHost(url)>>, err |-> ""]
         ELSE [c |-> <<"garbage">>, err |-> ""]
    ELSE [c |-> Tarball(UrlFile(url)), err |-> ""]

\* Manifests.getIndexBytes: the miss branch, res being download(url)'s result
getIndexBytesMiss(c, url, t, res) ==
    [c |-> res.c, err |-> res.err,
     cache |-> SetWithTTL(c, url, res.c, res.err,
                          IF res.err # "" THEN IndexErrorCacheTTl ELSE IndexCacheTTL, t)]

\* Manifests.getIndexBytes
getIndexBytes(c, up, url, t) ==
    IF ~CacheHit(c, url, t)
    THEN getIndexBytesMiss(c, url, t, download(up, url))
    ELSE [c |-> c[url].c, err |-> c[url].err, cache |-> c]

\* yaml.UnmarshalStrict of index.yaml bytes.
UnmarshalStrict(data) ==
    IF data[1] = "index.yaml"
    THEN [err |-> "", i |-> [isNil |-> FALSE, Entries |-> IndexYaml(data[2]).Entries]]
    ELSE [err |-> "yaml", i |-> NilIndex]

\* Manifests.downloadIndex from line 280 on: parse, validate, sort
parseIndex(parsed, cache1) ==
    IF parsed.err # ""
    THEN [c |-> NilIndex, err |-> parsed.err, cache |-> cache1]
    ELSE [c |-> [isNil |-> FALSE, Entries |-> SortEntries(parsed.i.Entries)],
          err |-> "", cache |-> cache1]

\* Manifests.downloadIndex after getIndexBytes has returned got
downloadIndexGot(got) ==
    IF got.err # "" THEN [c |-> NilIndex, err |-> got.err, cache |-> got.cache]
    ELSE IF Len(got.c) = 0
    THEN [c |-> NewIndexFile, err |-> "empty index.yaml", cache |-> got.cache]
    ELSE parseIndex(UnmarshalStrict(got.c), got.cache)

IndexURL(repoURLPath) == <<"https://">> \o repoURLPath \o <<"/", "index.yaml">>

\* Manifests.downloadIndex
downloadIndex(c, up, repoURLPath, t) ==
    downloadIndexGot(getIndexBytes(c, up, IndexURL(repoURLPath), t))

\* Manifests.GetIndex: the miss branch with the success TTL for every outcome
GetIndexMissOneTTL(repoURLPath, t, res) ==
    [c |-> res.c, err |-> res.err,
     cache |-> SetWithTTL(res.cache, repoURLPath, res.c, res.err, IndexCacheTTL, t)]

\* Manifests.GetIndex: the miss branch, res being downloadIndex's result
GetIndexMiss(repoURLPath, t, res) ==
    [c |-> res.c, err |-> res.err,
     cache |-> SetWithTTL(res.cache, repoURLPath, res.c, res.err,
                          IF res.err # "" THEN IndexErrorCacheTTl ELSE IndexCacheTTL, t)]

\* Manifests.GetIndex
GetIndex(c, up, repoURLPath, t) ==
    IF ~CacheHit(c, repoURLPath, t)
    THEN GetIndexMiss(repoURLPath, t, downloadIndex(c, up, repoURLPath, t))
    ELSE [c |-> c[repoURLPath].c, err |-> c[repoURLPath].err, cache |-> c]

----------------------------------------------------------------------------
(* The Manifest Store.                                                     *)

\* Manifests.Write
Write(ms, repo, name, n) ==
    IF repo \in DOMAIN ms
    THEN [ms EXCEPT ![repo] = (name :> n) @@ @]
    ELSE (repo :> (name :> n)) @@ ms

\* Manifests.Read succeeds
ReadOk(ms, repo, name) == repo \in DOMAIN ms /\ name \in DOMAIN ms[repo]

\* mem.Handler.Put
Put(bs, h, all) == (h :> all) @@ bs

MediaTypeImageManifest == <<"application/vnd.oci.image.manifest.v1+json">>

----------------------------------------------------------------------------
(* The dependency rewriter, the metadata extractor and the OCI packer.     *)

\* rewriteChartDependencies: c-2.tgz declares a dependency on an https
\* repository, c-1.tgz declares none.
rewriteChartDependencies(tarballData, proxyHost) ==
    IF tarballData = <<"tgz-c-2">>
    THEN [data |-> tarballData \o <<"deps-via">> \o proxyHost, Modified |-> TRUE, err |-> FALSE]
    ELSE [data |-> tarballData, Modified |-> FALSE, err |-> FALSE]

\* extractChartMeta and json.Marshal of the metadata: the config blob.
ConfigData(chartData) == <<"{chart.Metadata">> \o chartData \o <<"}">>

\* oras.Pack: the image manifest JSON.
Pack(configData, layerData, title, created) ==
    <<"{manifest", "config">> \o DigestFromBytes(configData) \o <<ToString(Len(configData))>>
    \o <<"layer">> \o DigestFromBytes(layerData) \o <<ToString(Len(layerData)), title>>
    \o <<"created">> \o created \o <<"}">>

----------------------------------------------------------------------------
(* InternalDst (the oras target that writes into the stores).              *)

\* InternalDst.getDeterministicTimestamp: prepareChart builds the target
\* with NewInternalDst, whose chartVer is nil, so the record's CreatedAt is
\* time.Now().
getDeterministicTimestamp(t) == t

\* InternalDst.Push of a manifest descriptor
PushManifest(ms, repo, h, contentType, binary, refs, t) ==
    Write(ms, repo, h, [ContentType |-> contentType, Blob |-> binary, Refs |-> refs,
                        CreatedAt |-> getDeterministicTimestamp(t)])

\* InternalDst.Tag
Tag(ms, repo, h, reference) ==
    IF ReadOk(ms, repo, h) THEN Write(ms, repo, reference, ms[repo][h]) ELSE ms

----------------------------------------------------------------------------
(* prepareChart.  S is the record [manifests, blobs, cache] of the stores, *)
(* up the upstream state and t the clock at the call.  The function is     *)
(* written as its successive stages, each taking what the former computed. *)

ChartMetaOk(chartData) == chartData[1] \in {"tgz-c-1", "tgz-c-2"}

\* Lines 207-231: the copy into the stores (blobs first, then the manifest
\* under its digest, then the tag).
copyToStores(S, t, dstRepo, reference, configData, manifestData, root) ==
    [manifests |->
        IF reference = <<>>
        THEN PushManifest(S.manifests, dstRepo, DigestFromBytes(root), MediaTypeImageManifest,
                          root, {DigestFromBytes(configData), DigestFromBytes(manifestData)}, t)
        ELSE Tag(PushManifest(S.manifests, dstRepo, DigestFromBytes(root), MediaTypeImageManifest,
                              root, {DigestFromBytes(configData), DigestFromBytes(manifestData)}, t),
                 dstRepo, DigestFromBytes(root), reference),
     blobs |-> Put(Put(S.blobs, DigestFromBytes(configData), configData),
                   DigestFromBytes(manifestData), manifestData),
     cache |-> S.cache]

\* The created annotation left to the packer's default, the time of packing.
packChartWallClock(S, t, path, chartVer, name, manifestData, configData) ==
    [err |-> NoErr,
     S |-> copyToStores(S, t, path \o <<"/">> \o chartVer.Name,
                        TrimPrefix(chartVer.Version, "v"), configData, manifestData,
                        Pack(configData, manifestData, name,
                             FormatRFC3339([hi |-> 0, lo |-> t, nsec |-> 0])))]

\* Lines 139-205: the config blob and the packed manifest.
packChart(S, t, path, chartVer, name, manifestData, configData) ==
    [err |-> NoErr,
     S |-> copyToStores(S, t, path \o <<"/">> \o chartVer.Name,
                        TrimPrefix(chartVer.Version, "v"), configData, manifestData,
                        Pack(configData, manifestData, name,
                             FormatRFC3339(getDeterministicCreatedTimestamp(chartVer))))]

\* Lines 148-165
configOf(manifestData) ==
    IF ChartMetaOk(manifestData) THEN ConfigData(manifestData) ELSE <<"{}">>

\* Lines 125-137: the tarball that is packed
rewritten(data, rewriteOpts, rw) ==
    IF rewriteOpts.Enabled /\ rewriteOpts.ProxyHost # <<>> /\ ~rw.err /\ rw.Modified
    THEN rw.data ELSE data

packData(S, t, path, chartVer, name, manifestData) ==
    packChart(S, t, path, chartVer, name, manifestData, configOf(manifestData))

\* Lines 120-137
prepareDownloaded(S, t, path, chartVer, downloadUrl, rewriteOpts, dl) ==
    IF dl.err # "" THEN [err |-> RegErrInternal, S |-> S]
    ELSE packData(S, t, path, chartVer, UrlFile(downloadUrl),
                  rewritten(dl.c, rewriteOpts,
                            rewriteChartDependencies(dl.c, rewriteOpts.ProxyHost)))

\* Lines 108-118
DownloadUrl(path, chartVer) ==
    IF HasPrefix(chartVer.URLs[1], "https://")
    THEN chartVer.URLs[1]
    ELSE <<"https://">> \o path \o <<"/">> \o chartVer.URLs[1]

prepareUrl(S, up, t, path, chartVer, downloadUrl, rewriteOpts) ==
    prepareDownloaded(S, t, path, chartVer, downloadUrl, rewriteOpts, download(up, downloadUrl))

\* Lines 90-118
prepareResolved(S, up, t, path, rewriteOpts, got) ==
    IF got.err THEN [err |-> RegError(404, "NOT FOUND"), S |-> S]
    ELSE IF Len(got.cv.URLs) = 0 THEN [err |-> RegError(404, "NOT FOUND"), S |-> S]
    ELSE prepareUrl(S, up, t, path, got.cv, DownloadUrl(path, got.cv), rewriteOpts)

\* Lines 85-89: index.Get, and on failure once more with "_" replaced
getOrReplace(index, chart, reference, first) ==
    IF first.err THEN IndexGet(index, chart, SemVerReplace(reference)) ELSE first

\* Lines 80-82
WithV(reference) ==
    IF reference # <<>> /\ ~HasPrefix(reference, "v") THEN <<"v">> \o reference ELSE reference

resolve(index, chart, reference) ==
    getOrReplace(index, chart, reference, IndexGet(index, chart, reference))

\* Lines 71-78 answering an index error with the code of a missing chart
prepareIndexedNotFound(S, up, t, path, chart, reference, rewriteOpts, gi) ==
    IF gi.err # "" THEN [err |-> RegError(404, "NOT FOUND"), S |-> [S EXCEPT !.cache = gi.cache]]
    ELSE prepareResolved([S EXCEPT !.cache = gi.cache], up, t, path, rewriteOpts,
                         resolve(gi.c, chart, WithV(reference)))

\* Lines 71-89
prepareIndexed(S, up, t, path, chart, reference, rewriteOpts, gi) ==
    IF gi.err # "" THEN [err |-> RegError(404, "NAME_UNKNOWN"), S |-> [S EXCEPT !.cache = gi.cache]]
    ELSE prepareResolved([S EXCEPT !.cache = gi.cache], up, t, path, rewriteOpts,
                         resolve(gi.c, chart, WithV(reference)))

preparePath(S, up, t, path, chart, reference, rewriteOpts) ==
    prepareIndexed(S, up, t, path, chart, reference, rewriteOpts, GetIndex(S.cache, up, path, t))

prepareElem(S, up, t, elem, reference, rewriteOpts) ==
    IF Len(elem) < 2 THEN [err |-> RegErrInternal, S |-> S]
    ELSE preparePath(S, up, t, Join(SubSeq(elem, 1, Len(elem) - 1)), elem[Len(elem)],
                     reference, rewriteOpts)

prepareChart(S, up, t, repo, reference, rewriteOpts) ==
    prepareElem(S, up, t, Split(repo), reference, rewriteOpts)

----------------------------------------------------------------------------
(* Manifests.Handle: GET and HEAD of /v2/<repo>/manifests/<ref>.           *)

\* Lines 120-132: the segments between "v2" and the operation token,
\* collected from the right ...
RECURSIVE CollectRepoParts(_, _)
CollectRepoParts(elem, i) ==
    IF i <= 1 \/ elem[i] = <<"v2">> THEN <<>>
    ELSE <<elem[i]>> \o CollectRepoParts(elem, i - 1)

\* ... and put back by sort.SliceStable with less(i, j) = i > j.  The sort
\* is the library's: insertion sort on blocks of blockSize elements, then
\* SymMerge of neighbouring blocks of doubling size.  Indices count from 0.
Reverse(s) == [i \in 1..Len(s) |-> s[Len(s) + 1 - i]]

blockSize == 20

less(i, j) == i > j

\* The swaps of neighbours that carry the element at from to the place to.
Move(d, from, to) ==
    IF to <= from
    THEN SubSeq(d, 1, to) \o <<d[from + 1]>> \o SubSeq(d, to + 1, from)
            \o SubSeq(d, from + 2, Len(d))
    ELSE SubSeq(d, 1, from) \o SubSeq(d, from + 2, to + 1) \o <<d[from + 1]>>
            \o SubSeq(d, to + 2, Len(d))

\* for j := i; j > a && less(j, j-1); j-- : where the swaps stop
RECURSIVE InsertPos(_, _)
InsertPos(a, j) == IF j > a /\ less(j, j - 1) THEN InsertPos(a, j - 1) ELSE j

RECURSIVE insertionSortFrom(_, _, _, _)
insertionSortFrom(d, a, i, b) ==
    IF i < b /\ Len(d) > 0 THEN insertionSortFrom(Move(d, i, InsertPos(a, i)), a, i + 1, b) ELSE d

insertionSort(d, a, b) == insertionSortFrom(d, a, a + 1, b)

\* lowest index i in [m, b) with data[i] >= data[a]
RECURSIVE SearchFirst(_, _, _)
SearchFirst(i, j, a) ==
    IF i < j
    THEN IF less((i + j) \div 2, a) THEN SearchFirst(((i + j) \div 2) + 1, j, a)
         ELSE SearchFirst(i, (i + j) \div 2, a)
    ELSE i

\* lowest index i in [a, m) with data[i] > data[m]
RECURSIVE SearchLast(_, _, _)
SearchLast(i, j, m) ==
    IF i < j
    THEN IF ~less(m, (i + j) \div 2) THEN SearchLast(((i + j) \div 2) + 1, j, m)
         ELSE SearchLast(i, (i + j) \div 2, m)
    ELSE i

RECURSIVE SearchStart(_, _, _)
SearchStart(start, r, p) ==
    IF start < r
    THEN IF ~less(p - ((start + r) \div 2), (start + r) \div 2)
         THEN SearchStart(((start + r) \div 2) + 1, r, p)
         ELSE SearchStart(start, (start + r) \div 2, p)
    ELSE start

\* rotate: data[a:m] and data[m:b] change places
rotate(d, a, m, b) ==
    SubSeq(d, 1, a) \o SubSeq(d, m + 1, b) \o SubSeq(d, a + 1, m) \o SubSeq(d, b + 1, Len(d))

RECURSIVE symMerge(_, _, _, _)
symMergeSplit(d, a, m, b, mid, start, end) ==
    LET d1 == IF start < m /\ m < end THEN rotate(d, start, m, end) ELSE d
        d2 == IF a < start /\ start < mid THEN symMerge(d1, a, start, mid) ELSE d1
    IN  IF mid < end /\ end < b THEN symMerge(d2, mid, end, b) ELSE d2

symMergeMid(d, a, m, b, mid, nn) ==
    symMergeSplit(d, a, m, b, mid,
                  IF m > mid THEN SearchStart(nn - b, mid, nn - 1) ELSE SearchStart(a, m, nn - 1),
                  nn - (IF m > mid THEN SearchStart(nn - b, mid, nn - 1)
                        ELSE SearchStart(a, m, nn - 1)))

symMerge(d, a, m, b) ==
    IF m - a = 1 THEN Move(d, a, SearchFirst(m, b, a) - 1)
    ELSE IF b - m = 1 THEN Move(d, m, SearchLast(a, m, m))
    ELSE symMergeMid(d, a, m, b, (a + b) \div 2, ((a + b) \div 2) + m)

RECURSIVE sortBlocks(_, _, _, _)
sortBlocks(d, a, b, n) ==
    IF b <= n THEN sortBlocks(insertionSort(d, a, b), b, b + blockSize, n)
    ELSE insertionSort(d, a, n)

RECURSIVE mergeBlocks(_, _, _, _, _)
mergeBlocks(d, a, b, bs, n) ==
    IF b <= n THEN mergeBlocks(symMerge(d, a, a + bs, b), b, b + 2 * bs, bs, n)
    ELSE IF a + bs < n THEN symMerge(d, a, a + bs, n)
    ELSE d

RECURSIVE mergePasses(_, _, _)
mergePasses(d, bs, n) ==
    IF bs < n THEN mergePasses(mergeBlocks(d, 0, 2 * bs, bs, n), 2 * bs, n) ELSE d

\* The sort stopped after its blocks are sorted, nothing merged.
stableBlocksOnly(d) == sortBlocks(d, 0, blockSize, Len(d))

\* sort.SliceStable
stable(d) == mergePasses(sortBlocks(d, 0, blockSize, Len(d)), blockSize, Len(d))

SliceStableReverse(s) == stable(s)

NoResp == [kind |-> "none", method |-> "", repo |-> <<>>, ref |-> <<>>, status |-> 0,
           code |-> "", digest |-> <<>>, ctype |-> <<>>, length |-> 0, body |-> <<>>,
           tags |-> <<>>]

ErrResp(kind, method, repo, ref, err) ==
    [NoResp EXCEPT !.kind = kind, !.method = method, !.repo = repo, !.ref = ref,
                   !.status = err.Status, !.code = err.Code]

\* The HEAD branch without its Content-Length header.
ManifestRespNoHeadLength(method, repo, ref, ma) ==
    [NoResp EXCEPT !.kind = "manifest", !.method = method, !.repo = repo, !.ref = ref,
                   !.status = 200,
                   !.digest = <<"sha256:">> \o Sha256Hex(ma.Blob),
                   !.ctype = ma.ContentType,
                   !.length = IF method = "GET" THEN Len(ma.Blob) ELSE 0,
                   !.body = IF method = "GET" THEN ma.Blob ELSE <<>>]

\* Lines 171-181 and 216-222: the 200 response for record ma.
ManifestResp(method, repo, ref, ma) ==
    [NoResp EXCEPT !.kind = "manifest", !.method = method, !.repo = repo, !.ref = ref,
                   !.status = 200,
                   !.digest = <<"sha256:">> \o Sha256Hex(ma.Blob),
                   !.ctype = ma.ContentType,
                   !.length = Len(ma.Blob),
                   !.body = IF method = "GET" THEN ma.Blob ELSE <<>>]

Found(ms, repo, name) == repo \in DOMAIN ms /\ name \in DOMAIN ms[repo]

OkPrepared(S) == [err |-> NoErr, S |-> S]

\* GET, lines 161-181: the final lookup, p being the last preparation
GetLookup(repo, target, p) ==
    IF p.err # NoErr THEN [resp |-> ErrResp("manifest", "GET", repo, target, p.err), S |-> p.S]
    ELSE IF ~Found(p.S.manifests, repo, target)
    THEN [resp |-> ErrResp("manifest", "GET", repo, target, RegError(404, "NOT FOUND")), S |-> p.S]
    ELSE [resp |-> ManifestResp("GET", repo, target, p.S.manifests[repo][target]), S |-> p.S]

\* GET, lines 152-160: prepare if the reference is missing and nothing was
\* prepared yet
GetSecond(up, t, repo, target, opts, known, p1) ==
    IF p1.err # NoErr THEN [resp |-> ErrResp("manifest", "GET", repo, target, p1.err), S |-> p1.S]
    ELSE GetLookup(repo, target,
                   IF ~Found(p1.S.manifests, repo, target) /\ known
                   THEN prepareChart(p1.S, up, t, repo, target, opts)
                   ELSE OkPrepared(p1.S))

\* GET, lines 136-150
HandleGet(S, up, t, repo, target, opts) ==
    GetSecond(up, t, repo, target, opts, repo \in DOMAIN S.manifests,
              IF repo \notin DOMAIN S.manifests
              THEN prepareChart(S, up, t, repo, target, opts)
              ELSE OkPrepared(S))

\* HEAD, lines 199-222: check if chart was just remapped to an _ before failing
HeadRemap(ms, repo, target) ==
    IF ~Found(ms, repo, target) /\ target # <<>> /\ Contains(target, "_")
    THEN ReplaceAll(target, "_", "+") ELSE target

HeadLookup(repo, target, target2, p) ==
    IF ~Found(p.S.manifests, repo, target2)
    THEN [resp |-> ErrResp("manifest", "HEAD", repo, target, RegError(404, "NOT FOUND")), S |-> p.S]
    ELSE [resp |-> ManifestResp("HEAD", repo, target, p.S.manifests[repo][target2]), S |-> p.S]

HeadFinal(repo, target, p) ==
    IF p.err # NoErr THEN [resp |-> ErrResp("manifest", "HEAD", repo, target, p.err), S |-> p.S]
    ELSE HeadLookup(repo, target, HeadRemap(p.S.manifests, repo, target), p)

\* HEAD, lines 193-198
HeadSecond(up, t, repo, target, opts, p1) ==
    IF p1.err # NoErr THEN [resp |-> ErrResp("manifest", "HEAD", repo, target, p1.err), S |-> p1.S]
    ELSE HeadFinal(repo, target,
                   IF ~Found(p1.S.manifests, repo, target)
                   THEN prepareChart(p1.S, up, t, repo, target, opts)
                   ELSE OkPrepared(p1.S))

\* HEAD, lines 184-192
HandleHead(S, up, t, repo, target, opts) ==
    HeadSecond(up, t, repo, target, opts,
               IF repo \notin DOMAIN S.manifests
               THEN prepareChart(S, up, t, repo, target, opts)
               ELSE OkPrepared(S))

\* The target taken as it is in the path, its "v" kept.
TargetOfKeepV(last) == last

\* Lines 114-118
TargetOf(last) == IF last # <<>> /\ HasPrefix(last, "v") THEN Tail(last) ELSE last

\* Lines 120-132; elem is the split path without its first (empty) element
RepoOf(elem) == Join(SliceStableReverse(CollectRepoParts(elem, Len(elem) - 2)))

HandleMethod(S, up, t, method, repo, target, opts) ==
    IF method = "GET" THEN HandleGet(S, up, t, repo, target, opts)
    ELSE IF method = "HEAD" THEN HandleHead(S, up, t, repo, target, opts)
    ELSE [resp |-> ErrResp("manifest", method, repo, target, RegError(400, "METHOD_UNKNOWN")), S |-> S]

HandleElem(S, up, t, method, elem0, opts) ==
    IF Len(elem0) < 3
    THEN [resp |-> ErrResp("manifest", method, <<>>, <<>>, RegError(400, "INVALID PARAMS")), S |-> S]
    ELSE HandleMethod(S, up, t, method, RepoOf(Tail(elem0)), TargetOf(elem0[Len(elem0)]), opts)

\* Manifests.Handle on the request path (a string starting with "/").
Handle(S, up, t, method, urlPath, opts) ==
    HandleElem(S, up, t, method, Split(urlPath), opts)

----------------------------------------------------------------------------
(* Manifests.HandleTags: GET /v2/<repo>/tags/list?last=..&n=..             *)

\* The keys of a map as a sorted slice (range over the map, sort.Strings).
RECURSIVE SortedSeqOfSet(_)
SortedSeqOfSet(set) ==
    IF set = {} THEN <<>>
    ELSE LET x == CHOOSE y \in set : \A z \in set : z = y \/ StrLess(y, z)
         IN  <<x>> \o SortedSeqOfSet(set \ {x})

\* The local tags preferred whenever the repository has any.
TagListLocalFirst(index, chart, c) ==
    IF ~index.isNil /\ DOMAIN c = {}
    THEN IF chart \in DOMAIN index.Entries
         THEN SortStrings([i \in 1..Len(index.Entries[chart]) |->
                              TrimLeft(index.Entries[chart][i].Version, "v")])
         ELSE <<>>
    ELSE SortedSeqOfSet({tag \in DOMAIN c : ~Contains(tag, "sha256:")})

\* Lines 276-293: the tag list before pagination.
TagList(index, chart, c) ==
    IF ~index.isNil
    THEN IF chart \in DOMAIN index.Entries
         THEN SortStrings([i \in 1..Len(index.Entries[chart]) |->
                              TrimLeft(index.Entries[chart][i].Version, "v")])
         ELSE <<>>
    ELSE SortedSeqOfSet({tag \in DOMAIN c : ~Contains(tag, "sha256:")})

\* Lines 297-304: offset using the last query parameter.
ApplyLast(tags, last) ==
    IF last # <<>> /\ \E i \in 1..Len(tags) : StrLess(last, tags[i])
    THEN LET i == CHOOSE k \in 1..Len(tags) :
                      StrLess(last, tags[k]) /\ \A j \in 1..(k-1) : ~StrLess(last, tags[j])
         IN  SubSeq(tags, i, Len(tags))
    ELSE tags

\* The limit applied only when n is positive.
ApplyNZeroUnset(tags, n) ==
    IF n.present /\ n.val > 0 /\ n.val < Len(tags) THEN SubSeq(tags, 1, n.val) ELSE tags

\* Lines 306-317: limit using the n query parameter (n.present: it is given).
ApplyN(tags, n) ==
    IF n.present /\ n.val < Len(tags) THEN SubSeq(tags, 1, n.val) ELSE tags

NoN == [present |-> FALSE, val |-> 0]
GivenN(k) == [present |-> TRUE, val |-> k]

\* Lines 275-331, p being the preparation of lines 266-273 and gi the index
TagsAnswer(method, fullRepo, repoParts, last, n, p, gi) ==
    [resp |-> [NoResp EXCEPT !.kind = "tags", !.method = method, !.repo = fullRepo,
                             !.status = 200,
                             !.tags = ApplyN(ApplyLast(
                                 TagList(gi.c, repoParts[Len(repoParts)],
                                         IF fullRepo \in DOMAIN p.S.manifests
                                         THEN p.S.manifests[fullRepo] ELSE <<>>), last), n)],
     S |-> [p.S EXCEPT !.cache = gi.cache]]

TagsPrepared(up, t, method, fullRepo, repoParts, last, n, p) ==
    IF p.err # NoErr
    THEN [resp |-> ErrResp("tags", method, fullRepo, <<>>, p.err), S |-> p.S]
    ELSE TagsAnswer(method, fullRepo, repoParts, last, n, p,
                    GetIndex(p.S.cache, up, Join(SubSeq(repoParts, 1, Len(repoParts) - 1)), t))

TagsRepo(S, up, t, method, fullRepo, repoParts, last, n, opts) ==
    IF method # "GET"
    THEN [resp |-> ErrResp("tags", method, fullRepo, <<>>, RegError(400, "METHOD_UNKNOWN")), S |-> S]
    ELSE TagsPrepared(up, t, method, fullRepo, repoParts, last, n,
                      IF fullRepo \notin DOMAIN S.manifests
                      THEN prepareChart(S, up, t, fullRepo, <<>>, opts)
                      ELSE OkPrepared(S))

TagsParts(S, up, t, method, repoParts, last, n, opts) ==
    TagsRepo(S, up, t, method, Join(repoParts), repoParts, last, n, opts)

TagsElem(S, up, t, method, elem, last, n, opts) ==
    IF Len(elem) < 4
    THEN [resp |-> ErrResp("tags", method, <<>>, <<>>, RegError(400, "INVALID PARAMS")), S |-> S]
    ELSE TagsParts(S, up, t, method,
                   SliceStableReverse(CollectRepoParts(elem, Len(elem) - 2)), last, n, opts)

HandleTags(S, up, t, method, urlPath, last, n, opts) ==
    TagsElem(S, up, t, method, Split(urlPath), last, n, opts)

----------------------------------------------------------------------------
(* Manifests.HandleCatalog.                                                *)

MaxN == 2

DefaultCatalogN == 10000

\* strconv.Atoi on the n of the query
AtoiOk(str) == \E k \in (0 - 1)..MaxN : ToString(k) = str

Atoi(str) == CHOOSE k \in (0 - 1)..MaxN : ToString(k) = str

CatalogN(nStr) == IF nStr = "" THEN DefaultCatalogN ELSE Atoi(nStr)

\* range over a map stops after n keys, in an order of the runtime's choosing
FirstVisited(keys, n) ==
    {P \in SUBSET keys :
        Cardinality(P) = IF n < 0 THEN 0
                         ELSE IF n < Cardinality(keys) THEN n ELSE Cardinality(keys)}

CatalogResp(method, repos) ==
    [NoResp EXCEPT !.kind = "catalog", !.method = method, !.status = 200,
                   !.body = SortStrings(repos)]

\* Every visit order answers.
CatalogAnswers(S, method, names, n) ==
    {[resp |-> CatalogResp(method, SortedSeqOfSet(P)), S |-> S] : P \in FirstVisited(names, n)}

\* Lines 383-396: index being GetIndex(repo)'s result
CatalogOfIndex(S, method, repo, n, gi) ==
    CatalogAnswers([S EXCEPT !.cache = gi.cache], method,
                   IF ~gi.c.isNil
                   THEN {repo \o <<"/">> \o r : r \in DOMAIN gi.c.Entries}
                   ELSE {},
                   n)

\* Lines 380-410
CatalogElems(S, up, t, method, elems, n) ==
    IF Len(elems) > 2
    THEN CatalogOfIndex(S, method, Join(SubSeq(elems, 1, Len(elems) - 2)), n,
                        GetIndex(S.cache, up, Join(SubSeq(elems, 1, Len(elems) - 2)), t))
    ELSE CatalogAnswers(S, method, DOMAIN S.manifests, n)

\* Manifests.HandleCatalog: the set of its possible outcomes
HandleCatalog(S, up, t, method, urlPath, nStr) ==
    IF nStr # "" /\ ~AtoiOk(nStr)
    THEN {[resp |-> ErrResp("catalog", method, <<>>, <<>>, RegErrInternal), S |-> S]}
    ELSE IF method # "GET"
    THEN {[resp |-> ErrResp("catalog", method, <<>>, <<>>, RegError(400, "METHOD_UNKNOWN")),
           S |-> S]}
    ELSE CatalogElems(S, up, t, method, Tail(Split(urlPath)), CatalogN(nStr))

----------------------------------------------------------------------------
(* Blobs.Handle with the in-memory handler: GET /v2/<repo>/blobs/<digest>. *)

BlobsHandle(bs, method, target) ==
    IF ~NewHashOk(target)
    THEN ErrResp("blob", method, <<>>, target, RegError(400, "NAME_INVALID"))
    ELSE IF target \notin DOMAIN bs
    THEN ErrResp("blob", method, <<>>, target, RegError(404, "BLOB_UNKNOWN"))
    ELSE [NoResp EXCEPT !.kind = "blob", !.method = method, !.ref = target, !.status = 200,
                        !.digest = target, !.length = Len(bs[target]),
                        !.body = IF method = "GET" THEN bs[target] ELSE <<>>]

----------------------------------------------------------------------------
(* The eviction loop of NewManifests (one ticker firing).                  *)

\* v.CreatedAt.Before(time.Now().Add(-ma.config.CacheTTL))
Expired(v, t) == v.CreatedAt < t - CacheTTL

ExpiredRefs(ms, t) ==
    UNION {UNION {IF Expired(ms[r][k], t) THEN ms[r][k].Refs ELSE {} : k \in DOMAIN ms[r]} :
           r \in DOMAIN ms}

\* mem.Handler.Delete of every ref that v1.NewHash parses
DeleteAll(bs, refs) ==
    [h \in DOMAIN bs \ {d \in refs : NewHashOk(d)} |-> bs[h]]

EvictManifests(ms, t) ==
    [r \in DOMAIN ms |-> [k \in {k \in DOMAIN ms[r] : ~Expired(ms[r][k], t)} |-> ms[r][k]]]

----------------------------------------------------------------------------
(* Requests the clients send.                                              *)

ReqRepos == {<<"h1", "/", "c">>, <<"h2", "/", "c">>}

ReqRefs == {<<"2.0.0">>, <<"v", "2.0.0">>, <<"1.0.0", "+", "b">>, <<"1.0.0", "_", "b">>}

\* Digest references a client has learnt from earlier responses.
DigestKeys(ms) == UNION {{k \in DOMAIN ms[r] : Contains(k, "sha256:")} : r \in DOMAIN ms}

ReqLast == {<<>>, <<"1.0.0", "+", "b">>}

ReqN == {NoN, GivenN(0), GivenN(1)}

ManifestURL(repo, ref) == <<"/", "v2", "/">> \o repo \o <<"/", "manifests", "/">> \o ref

TagsURL(repo) == <<"/", "v2", "/">> \o repo \o <<"/", "tags", "/", "list">>

CatalogURL == <<"/", "v2", "/", "_catalog">>

CatalogURLs == {CatalogURL, <<"/", "h1", "/", "v2", "/", "_catalog">>}

\* RewriteOptions of a request: the process default (no per-request toggle
\* is given) and the configured proxy host.
RewriteOptionsOf(cfg) == [Enabled |-> cfg.RewriteDependencies, ProxyHost |-> cfg.ProxyHost]

----------------------------------------------------------------------------
(* The state machine.                                                      *)

Stores == [manifests |-> manifests, blobs |-> blobs, cache |-> cache]

Commit(out) ==
    /\ manifests' = out.S.manifests
    /\ blobs' = out.S.blobs
    /\ cache' = out.S.cache

NoStamp == [set |-> FALSE, val |-> ZeroTime]

NoCall == [fn |-> "none"]
NoResult == [set |-> FALSE, val |-> <<>>]

\* Hosts whose answers change while the proxy runs.
FlakyHosts == {"h2"}

Init ==
    /\ manifests = <<>>
    /\ blobs = <<>>
    /\ cache = <<>>
    /\ now = 0
    /\ upstream \in [Hosts -> UpstreamModes]
    /\ \A h \in Hosts \ FlakyHosts : upstream[h] = "ok"
    /\ config \in [RewriteDependencies : BOOLEAN, ProxyHost : {<<"proxy.example">>}]
    /\ tsInput = NoChartVersion
    /\ stamp = NoStamp
    /\ call = NoCall
    /\ result = NoResult

ManifestGet ==
    \E repo \in ReqRepos, ref \in ReqRefs \cup DigestKeys(manifests) :
        /\ Commit(Handle(Stores, upstream, now, "GET", ManifestURL(repo, ref),
                         RewriteOptionsOf(config)))
        /\ UNCHANGED <<now, upstream, config, tsInput, stamp, call, result>>

ManifestHead ==
    \E repo \in ReqRepos, ref \in ReqRefs \cup DigestKeys(manifests) :
        /\ Commit(Handle(Stores, upstream, now, "HEAD", ManifestURL(repo, ref),
                         RewriteOptionsOf(config)))
        /\ UNCHANGED <<now, upstream, config, tsInput, stamp, call, result>>

TagsList ==
    \E repo \in ReqRepos, last \in ReqLast, n \in ReqN :
        /\ Commit(HandleTags(Stores, upstream, now, "GET", TagsURL(repo), last, n,
                             RewriteOptionsOf(config)))
        /\ UNCHANGED <<now, upstream, config, tsInput, stamp, call, result>>

\* GET of the catalog, of the process and of an upstream host.
CatalogList ==
    \E urlPath \in CatalogURLs, nStr \in {"", "1"} :
        \E out \in HandleCatalog(Stores, upstream, now, "GET", urlPath, nStr) :
            /\ Commit(out)
            /\ UNCHANGED <<now, upstream, config, tsInput, stamp, call, result>>

\* A blob request reads the Blob Store and changes nothing.
BlobGet ==
    \E method \in {"GET", "HEAD"}, d \in DOMAIN blobs :
        /\ BlobsHandle(blobs, method, d).status = 200
        /\ UNCHANGED vars

\* case <-ticker.C of the eviction goroutine
EvictionTick ==
    /\ manifests' = EvictManifests(manifests, now)
    /\ blobs' = DeleteAll(blobs, ExpiredRefs(manifests, now))
    /\ UNCHANGED <<cache, now, upstream, config, tsInput, stamp, call, result>>

\* Time passes; the cache drops the entries whose TTL has run out.
AdvanceTime ==
    /\ now < MaxTime
    /\ now' = now + 1
    /\ cache' = [k \in {k \in DOMAIN cache : now + 1 < cache[k].expire} |-> cache[k]]
    /\ UNCHANGED <<manifests, blobs, upstream, config, tsInput, stamp, call, result>>

\* An upstream host starts or stops answering properly.
UpstreamChange ==
    \E h \in FlakyHosts, mode \in UpstreamModes :
        /\ upstream[h] # mode
        /\ upstream' = [upstream EXCEPT ![h] = mode]
        /\ UNCHANGED <<manifests, blobs, cache, now, config, tsInput, stamp, call, result>>

Next ==
    \/ ManifestGet
    \/ ManifestHead
    \/ TagsList
    \/ CatalogList
    \/ BlobGet
    \/ EvictionTick
    \/ AdvanceTime
    \/ UpstreamChange

Spec == Init /\ [][Next]_vars

----------------------------------------------------------------------------
(* getDeterministicCreatedTimestamp on its own: a caller holds a chart     *)
(* version of the index and calls the function at any time, as often as it *)
(* likes.                                                                  *)

ChartNames == {<<"c">>, <<"b">>}

ChartVersionStrings == {<<"1.0.0">>, <<"2.0.0">>, <<"v", "2.0.0">>, <<"1.0.0", "+", "b">>}

CreatedTimes == {ZeroTime, [hi |-> 25000, lo |-> 7, nsec |-> 5], [hi |-> 1, lo |-> 0, nsec |-> 0]}

InitTimestamp ==
    /\ manifests = <<>>
    /\ blobs = <<>>
    /\ cache = <<>>
    /\ now = 0
    /\ upstream = [h \in Hosts |-> "ok"]
    /\ config = [RewriteDependencies |-> FALSE, ProxyHost |-> <<"proxy.example">>]
    /\ tsInput \in [Name : ChartNames, Version : ChartVersionStrings,
                     URLs : {<<RelURL("c-1.tgz")>>}, Created : CreatedTimes]
    /\ stamp = NoStamp
    /\ call = NoCall
    /\ result = NoResult

CallTimestamp ==
    /\ stamp' = [set |-> TRUE, val |-> getDeterministicCreatedTimestamp(tsInput)]
    /\ UNCHANGED <<manifests, blobs, cache, now, upstream, config, tsInput, call, result>>

NextTimestamp ==
    \/ CallTimestamp
    \/ AdvanceTime

SpecTimestamp == InitTimestamp /\ [][NextTimestamp]_vars

----------------------------------------------------------------------------
(* Functions called on their own: the process is as constructed and takes  *)
(* no request; call holds the arguments, result what the call returned.    *)

Idle ==
    /\ manifests = <<>>
    /\ blobs = <<>>
    /\ cache = <<>>
    /\ now = 0
    /\ upstream = [h \in Hosts |-> "ok"]
    /\ config = [RewriteDependencies |-> FALSE, ProxyHost |-> <<"proxy.example">>]
    /\ tsInput = NoChartVersion
    /\ stamp = NoStamp

Return(val) ==
    /\ ~result.set
    /\ result' = [set |-> TRUE, val |-> val]
    /\ UNCHANGED <<manifests, blobs, cache, now, upstream, config, tsInput, stamp, call>>

----------------------------------------------------------------------------
(* The pagination of Manifests.HandleTags (lines 293-317) on its own.      *)

TagUniverse == {<<"1.0.0">>, <<"1.0.0", "+", "b">>, <<"2.0.0">>, <<"3.0.0">>}

MaxTags == 3

\* The tags before sorting: any list of at most MaxTags tags.
TagLists == UNION {[1..k -> TagUniverse] : k \in 0..MaxTags}

InitTags ==
    /\ Idle
    /\ call \in [fn : {"paginate"}, tags : TagLists, last : TagUniverse \cup {<<>>},
                  n : {NoN} \cup {GivenN(k) : k \in 0..MaxTags}]
    /\ result = NoResult

\* sort.Strings(tags), then the last and n parameters
Paginate ==
    /\ call.fn = "paginate"
    /\ Return(ApplyN(ApplyLast(SortStrings(call.tags), call.last), call.n))

NextTags == Paginate

SpecTags == InitTags /\ [][NextTags]_vars

----------------------------------------------------------------------------
(* Blobs.Handle step by step: the handler takes the store's lock for Stat  *)
(* and again for Get, and the eviction goroutine and the preparations of   *)
(* other requests use the store in between.                                *)

\* Handler.Stat
Stat(bs, h) == IF h \in DOMAIN bs THEN [found |-> TRUE, size |-> Len(bs[h])]
               ELSE [found |-> FALSE, size |-> 0]

\* Handler.Get
Get(bs, h) == IF h \in DOMAIN bs THEN [found |-> TRUE, b |-> bs[h]]
              ELSE [found |-> FALSE, b |-> <<>>]

\* Handler.Delete
Delete(bs, h) == [d \in DOMAIN bs \ {h} |-> bs[d]]

regErrBlobUnknown == RegError(404, "BLOB_UNKNOWN")

\* Lines 36-50: the path elements, a trailing empty one dropped
BlobElems(urlPath) ==
    LET elem == Tail(Split(urlPath))
    IN  IF elem[Len(elem)] = <<>> THEN SubSeq(elem, 1, Len(elem) - 1) ELSE elem

BlobOk(method, target, size, body) ==
    [NoResp EXCEPT !.kind = "blob", !.method = method, !.ref = target, !.status = 200,
                   !.digest = target, !.length = size, !.body = body]

\* Lines 52-123: up to and including Stat.  more: the GET goes on to Get.
BlobsStat(bs, method, elem) ==
    LET target == elem[Len(elem)]
    IN  IF Len(elem) < 4
        THEN [more |-> FALSE, size |-> 0,
              resp |-> ErrResp("blob", method, <<>>, target, RegError(400, "NAME_INVALID"))]
        ELSE IF method \notin {"GET", "HEAD"}
        THEN [more |-> FALSE, size |-> 0,
              resp |-> ErrResp("blob", method, <<>>, target, RegError(400, "METHOD_UNKNOWN"))]
        ELSE IF ~NewHashOk(target)
        THEN [more |-> FALSE, size |-> 0,
              resp |-> ErrResp("blob", method, <<>>, target, RegError(400, "NAME_INVALID"))]
        ELSE IF ~Stat(bs, target).found
        THEN [more |-> FALSE, size |-> 0,
              resp |-> ErrResp("blob", method, <<>>, target, regErrBlobUnknown)]
        ELSE IF method = "HEAD"
        THEN [more |-> FALSE, size |-> 0,
              resp |-> BlobOk(method, target, Stat(bs, target).size, <<>>)]
        ELSE [more |-> TRUE, size |-> Stat(bs, target).size, resp |-> NoResp]

\* A Get whose ErrNotFound is not looked at.
BlobsGetUnchecked(bs, method, target, size) ==
    BlobOk(method, target, size, Get(bs, target).b)

\* Lines 125-163: Get after Stat, and the response
BlobsGet(bs, method, target, size) ==
    IF ~Get(bs, target).found
    THEN ErrResp("blob", method, <<>>, target, regErrBlobUnknown)
    ELSE BlobOk(method, target, size, Get(bs, target).b)

\* The blobs a preparation can have put, and digests nothing was put under.
BlobContents == {<<"tgz-c-1">>, <<"{chart.Metadata", "tgz-c-2", "}">>}

BlobTargets ==
    {DigestFromBytes(b) : b \in BlobContents} \cup {<<"sha256:">>, <<"latest">>}

BlobRepos == {<<>>, <<"h1", "/", "c">>}

BlobURL(r, d) ==
    <<"/", "v2">> \o (IF r = <<>> THEN <<>> ELSE <<"/">> \o r) \o <<"/", "blobs", "/">> \o d

BlobStores == {[d \in {DigestFromBytes(b) : b \in B} |-> Tail(d)] : B \in SUBSET BlobContents}

InitBlob ==
    /\ manifests = <<>>
    /\ blobs \in BlobStores
    /\ cache = <<>>
    /\ now = 0
    /\ upstream = [h \in Hosts |-> "ok"]
    /\ config = [RewriteDependencies |-> FALSE, ProxyHost |-> <<"proxy.example">>]
    /\ tsInput = NoChartVersion
    /\ stamp = NoStamp
    /\ call \in [fn : {"blob"}, method : {"GET", "HEAD", "POST"},
                  urlPath : {BlobURL(r, d) : r \in BlobRepos, d \in BlobTargets},
                  pc : {"start"}, size : {0}]
    /\ result = NoResult

\* The handler up to Stat; it answers, or has a size and goes on to Get.
BlobStart ==
    /\ call.pc = "start"
    /\ LET st == BlobsStat(blobs, call.method, BlobElems(call.urlPath))
       IN  IF st.more
           THEN /\ call' = [call EXCEPT !.pc = "stat", !.size = st.size]
                /\ UNCHANGED result
           ELSE /\ call' = [call EXCEPT !.pc = "done"]
                /\ result' = [set |-> TRUE, val |-> st.resp]
    /\ UNCHANGED <<manifests, blobs, cache, now, upstream, config, tsInput, stamp>>

\* The handler's Get and its response.
BlobRead ==
    /\ call.pc = "stat"
    /\ call' = [call EXCEPT !.pc = "done"]
    /\ result' = [set |-> TRUE,
                  val |-> BlobsGet(blobs, call.method,
                                   BlobElems(call.urlPath)[Len(BlobElems(call.urlPath))],
                                   call.size)]
    /\ UNCHANGED <<manifests, blobs, cache, now, upstream, config, tsInput, stamp>>

\* The eviction goroutine deletes a blob.
BlobDelete ==
    /\ \E d \in DOMAIN blobs : blobs' = Delete(blobs, d)
    /\ UNCHANGED <<manifests, cache, now, upstream, config, tsInput, stamp, call, result>>

\* A preparation puts a blob (InternalDst.Push has verified digest and size).
BlobPut ==
    /\ \E b \in BlobContents :
          /\ DigestFromBytes(b) \notin DOMAIN blobs
          /\ blobs' = Put(blobs, DigestFromBytes(b), b)
    /\ UNCHANGED <<manifests, cache, now, upstream, config, tsInput, stamp, call, result>>

NextBlob ==
    \/ BlobStart
    \/ BlobRead
    \/ BlobDelete
    \/ BlobPut

SpecBlob == InitBlob /\ [][NextBlob]_vars

----------------------------------------------------------------------------
(* The router: Registry.v2 and the helper predicates.                      *)

\* Blobs.Handle when nothing else uses the store during the request
BlobsServe(bs, method, elem) ==
    IF BlobsStat(bs, method, elem).more
    THEN BlobsGet(bs, method, elem[Len(elem)], BlobsStat(bs, method, elem).size)
    ELSE BlobsStat(bs, method, elem).resp

Seg(str) == <<str>>

IsBlob(urlPath) ==
    LET elem == BlobElems(urlPath)
    IN  /\ Len(elem) >= 3
        /\ \/ elem[Len(elem) - 1] = Seg("blobs")
           \/ elem[Len(elem) - 2] = Seg("blobs") /\ elem[Len(elem) - 1] = Seg("uploads")

IsManifest(urlPath) ==
    LET elems == Tail(Split(urlPath))
    IN  Len(elems) >= 4 /\ elems[Len(elems) - 1] = Seg("manifests")

IsTags(urlPath) ==
    LET elems == Tail(Split(urlPath))
    IN  Len(elems) >= 4 /\ elems[Len(elems) - 1] = Seg("tags")

IsCatalog(urlPath) ==
    LET elems == Tail(Split(urlPath))
    IN  Len(elems) >= 2 /\ elems[Len(elems)] = Seg("_catalog")

\* strings.Trim(s, "/")
RECURSIVE TrimSlashes(_)
TrimSlashes(str) ==
    IF str = <<>> THEN str
    ELSE IF Head(str) = "/" THEN TrimSlashes(Tail(str))
    ELSE IF str[Len(str)] = "/" THEN TrimSlashes(SubSeq(str, 1, Len(str) - 1))
    ELSE str

IsV2(urlPath) ==
    LET elems == Split(TrimSlashes(urlPath))
    IN  Len(elems) >= 1 /\ elems[Len(elems)] = Seg("v2")

AdminPaths ==
    {<<"/", "api", "/", "version">>, <<"/", "api", "/", "systeminfo">>,
     <<"/", "api", "/", "v2.0", "/", "systeminfo">>}

PlainResp(kind, method) == [NoResp EXCEPT !.kind = kind, !.method = method, !.status = 200]

Routed(route, out) == {[route |-> route, resp |-> o.resp, S |-> o.S] : o \in out}

\* Registry.v2: the handler chosen and the set of its possible outcomes
v2(S, up, t, method, urlPath, last, n, nStr, opts) ==
    IF urlPath = <<"/">> \/ urlPath = <<>>
    THEN Routed("home", {[resp |-> PlainResp("home", method), S |-> S]})
    ELSE IF urlPath \in AdminPaths
    THEN Routed("admin", {[resp |-> PlainResp("admin", method), S |-> S]})
    ELSE IF IsBlob(urlPath)
    THEN Routed("blob", {[resp |-> BlobsServe(S.blobs, method, BlobElems(urlPath)), S |-> S]})
    ELSE IF IsManifest(urlPath)
    THEN Routed("manifest", {Handle(S, up, t, method, urlPath, opts)})
    ELSE IF IsTags(urlPath)
    THEN Routed("tags", {HandleTags(S, up, t, method, urlPath, last, n, opts)})
    ELSE IF IsCatalog(urlPath)
    THEN Routed("catalog", HandleCatalog(S, up, t, method, urlPath, nStr))
    ELSE IF IsV2(urlPath)
    THEN Routed("v2", {[resp |-> PlainResp("v2", method), S |-> S]})
    ELSE Routed("unknown",
                {[resp |-> ErrResp("none", method, <<>>, <<>>, RegError(404, "METHOD_UNKNOWN")),
                  S |-> S]})

\* Paths the router is given, each also with a trailing "/".
RouteBases ==
    {<<"/", "v2">>,
     ManifestURL(<<"h1", "/", "c">>, <<"2.0.0">>),
     TagsURL(<<"h1", "/", "c">>),
     CatalogURL,
     <<"/", "h1", "/", "v2", "/", "_catalog">>,
     <<"/", "v2", "/", "h1", "/", "_catalog">>,
     <<"/", "_catalog">>,
     BlobURL(<<"h1", "/", "c">>, DigestFromBytes(<<"tgz-c-2">>)),
     BlobURL(<<>>, DigestFromBytes(<<"tgz-c-2">>)),
     <<"/", "v2", "/", "h1", "/", "blobs", "/", "uploads", "/", "u1">>,
     <<"/", "v2", "/", "manifests", "/", "2.0.0">>,
     <<"/", "h1", "/", "c">>}

RoutePaths ==
    RouteBases \cup {b \o <<"/">> : b \in RouteBases} \cup AdminPaths \cup {<<"/">>, <<>>}

RouteMethods == {"GET", "HEAD", "POST", "DELETE"}

NStrings == {"", "abc"} \cup {ToString(k) : k \in (0 - 1)..MaxN}

InitRouter ==
    /\ Idle
    /\ call \in [fn : {"v2"}, method : RouteMethods, urlPath : RoutePaths, nStr : NStrings]
    /\ result = NoResult

\* One request through the router; the handler's writes are kept.
Serve ==
    /\ ~result.set
    /\ \E out \in v2(Stores, upstream, now, call.method, call.urlPath, <<>>, NoN, call.nStr,
                     RewriteOptionsOf(config)) :
          /\ Commit(out)
          /\ result' = [set |-> TRUE, val |-> [route |-> out.route, resp |-> out.resp]]
    /\ UNCHANGED <<now, upstream, config, tsInput, stamp, call>>

NextRouter == Serve

SpecRouter == InitRouter /\ [][NextRouter]_vars

----------------------------------------------------------------------------
(* The repository name Manifests.Handle and Manifests.HandleTags take from *)
(* the path, on paths of up to MaxSegments segments between "/v2/" and the *)
(* operation token.                                                        *)

MaxSegments == 44

\* Segment i of the path: its number, or the literal v2 at position at.
PathSegment(i, at) == IF i = at THEN <<"v2">> ELSE <<ToString(i)>>

PathSegments(k, at) == [i \in 1..k |-> PathSegment(i, at)]

RepoURL(op, k, at) ==
    <<"/", "v2", "/">> \o Join(PathSegments(k, at))
        \o (IF op = "tags" THEN <<"/", "tags", "/", "list">> ELSE <<"/", "manifests", "/", "1.0">>)

\* Lines 242-254; elem is the split path
TagsRepoOf(elem) == Join(SliceStableReverse(CollectRepoParts(elem, Len(elem) - 2)))

RepoNameOf(op, urlPath) ==
    IF op = "tags" THEN TagsRepoOf(Split(urlPath)) ELSE RepoOf(Tail(Split(urlPath)))

InitRepoName ==
    /\ Idle
    /\ call \in {c \in [fn : {"repo"}, op : {"manifests", "tags"}, k : 1..MaxSegments,
                        at : 0..MaxSegments] : c.at <= c.k}
    /\ result = NoResult

NameRepo ==
    /\ call.fn = "repo"
    /\ Return(RepoNameOf(call.op, RepoURL(call.op, call.k, call.at)))

NextRepoName == NameRepo

SpecRepoName == InitRepoName /\ [][NextRepoName]_vars

----------------------------------------------------------------------------
(* The rewrite of one dependency's repository URL.  A URL is its scheme    *)
(* with the separator as one token ("https://", "file:", "@"), then the    *)
(* host, then the path with "/" tokens.                                    *)

SchemeTokens == {"https://", "http://", "oci://", "ftp://", "file://"}

\* url.Parse: a bad escape fails; without a scheme all is path
ParseURL(rawURL) ==
    IF Contains(rawURL, "%zz") THEN [ok |-> FALSE, Scheme |-> "", Host |-> <<>>, Path |-> <<>>]
    ELSE IF rawURL[1] \notin SchemeTokens
    THEN [ok |-> TRUE, Scheme |-> "", Host |-> <<>>, Path |-> rawURL]
    ELSE IF Len(rawURL) = 1 \/ rawURL[2] = "/"
    THEN [ok |-> TRUE, Scheme |-> rawURL[1], Host |-> <<>>, Path |-> Tail(rawURL)]
    ELSE [ok |-> TRUE, Scheme |-> rawURL[1], Host |-> <<rawURL[2]>>,
          Path |-> SubSeq(rawURL, 3, Len(rawURL))]

NoURL == [newURL |-> <<>>, wasOCI |-> FALSE, err |-> <<>>]

\* fmt.Sprintf("oci://%s/%s/%s", ...) or ("oci://%s/%s", ...)
ProxiedURL(proxyHost, host, path) ==
    <<"oci://">> \o proxyHost \o <<"/">> \o host \o (IF path # <<>> THEN <<"/">> \o path ELSE <<>>)

\* The path put behind the host with its leading "/" kept.
rewriteParsedKeepSlash(parsed, proxyHost) ==
    IF parsed.Scheme \in {"https://", "http://", "oci://"}
    THEN [newURL |-> ProxiedURL(proxyHost, parsed.Host, parsed.Path),
          wasOCI |-> parsed.Scheme = "oci://", err |-> <<>>]
    ELSE [NoURL EXCEPT !.err = <<"unsupported scheme: ", parsed.Scheme>>]

\* Lines 238-260
rewriteParsed(parsed, proxyHost) ==
    IF parsed.Scheme \in {"https://", "http://", "oci://"}
    THEN [newURL |-> ProxiedURL(proxyHost, parsed.Host, TrimPrefix(parsed.Path, "/")),
          wasOCI |-> parsed.Scheme = "oci://", err |-> <<>>]
    ELSE [NoURL EXCEPT !.err = <<"unsupported scheme: ", parsed.Scheme>>]

rewriteDependencyURL(originalURL, proxyHost) ==
    IF originalURL = <<>> THEN [NoURL EXCEPT !.err = <<"empty URL">>]
    ELSE IF ~ParseURL(originalURL).ok THEN [NoURL EXCEPT !.err = <<"failed to parse URL: ">>]
    ELSE rewriteParsed(ParseURL(originalURL), proxyHost)

shouldRewriteURL(repoURL) ==
    /\ repoURL # <<>>
    /\ ~(HasPrefix(repoURL, "@") \/ HasPrefix(repoURL, "alias:"))
    /\ ~(HasPrefix(repoURL, "file://") \/ HasPrefix(repoURL, "file:"))

getSkipReason(repoURL) ==
    IF repoURL = <<>> THEN <<"empty URL">>
    ELSE IF HasPrefix(repoURL, "@") \/ HasPrefix(repoURL, "alias:") THEN <<"Helm repo alias">>
    ELSE IF HasPrefix(repoURL, "file://") \/ HasPrefix(repoURL, "file:")
    THEN <<"local file reference">>
    ELSE <<"unknown">>

\* rewriteChartDependencies, lines 61-98, rw being rewriteDependencyURL's result
rewriteOneWith(originalURL, rw) ==
    IF rw.err # <<>>
    THEN [Repository |-> originalURL, NewURL |-> <<>>, Skipped |-> TRUE, SkipReason |-> rw.err,
          modified |-> FALSE]
    ELSE [Repository |-> rw.newURL, NewURL |-> rw.newURL, Skipped |-> FALSE, SkipReason |-> <<>>,
          modified |-> TRUE]

\* rewriteChartDependencies, lines 61-98: one turn of the loop over the
\* dependencies; Repository is dep.Repository after it
rewriteOne(originalURL, proxyHost) ==
    IF ~shouldRewriteURL(originalURL)
    THEN [Repository |-> originalURL, NewURL |-> <<>>, Skipped |-> TRUE,
          SkipReason |-> getSkipReason(originalURL), modified |-> FALSE]
    ELSE rewriteOneWith(originalURL, rewriteDependencyURL(originalURL, proxyHost))

DepHosts == {<<>>, <<"charts.example.com">>, <<"h1">>}

DepPaths == {<<>>, <<"/">>, <<"/", "repo">>, <<"/", "a", "/", "b">>, <<"/", "%zz">>}

DepURLs ==
    {<<sc>> \o h \o pa : sc \in SchemeTokens, h \in DepHosts, pa \in DepPaths}
        \cup {h \o pa : h \in DepHosts, pa \in DepPaths}
        \cup {<<"@", "myrepo">>, <<"alias:", "myrepo">>, <<"file:", "..", "/", "sub">>}

ProxyHosts == {<<"proxy.example">>, <<"chartproxy.example.com", ":", "8080">>}

InitRewrite ==
    /\ Idle
    /\ call \in [fn : {"rewrite"}, url : DepURLs, proxyHost : ProxyHosts]
    /\ result = NoResult

RewriteDependency ==
    /\ call.fn = "rewrite"
    /\ Return(rewriteOne(call.url, call.proxyHost))

NextRewrite == RewriteDependency

SpecRewrite == InitRewrite /\ [][NextRewrite]_vars

----------------------------------------------------------------------------
(* The rewriter on an archive.  A tarball is what gunzip and the tar       *)
(* reader give: whether gzip opens it, its entries in order, and the entry *)
(* at which the tar reader fails (0: none).  The body of a Chart.yaml      *)
(* entry is what yaml.Unmarshal gives: whether it parses, the dependencies *)
(* and whether it has fields chart.Metadata does not know.                 *)

MaxDeps == 2

NilDep == [isNil |-> TRUE, Name |-> "", Repository |-> <<>>]

Dep(name, repoURL) == [isNil |-> FALSE, Name |-> name, Repository |-> repoURL]

\* strings.HasSuffix(header.Name, "/Chart.yaml") || header.Name == "Chart.yaml"
IsChartYAML(name) ==
    \/ name = <<"Chart.yaml">>
    \/ Len(name) >= 2 /\ name[Len(name)] = "Chart.yaml" /\ name[Len(name) - 1] = "/"

NoMetadata == [deps |-> <<>>, unknown |-> FALSE]

\* extractChartYAML: the scan from entry i on
RECURSIVE extractFrom(_, _)
extractFrom(tarballData, i) ==
    IF i > Len(tarballData.entries)
    THEN [err |-> "chart.yaml not found in tarball", metadata |-> NoMetadata, path |-> <<>>]
    ELSE IF i = tarballData.brokenAt
    THEN [err |-> "failed to read tar entry", metadata |-> NoMetadata, path |-> <<>>]
    ELSE IF IsChartYAML(tarballData.entries[i].Name)
    THEN IF ~tarballData.entries[i].body.ok
         THEN [err |-> "failed to parse Chart.yaml", metadata |-> NoMetadata, path |-> <<>>]
         ELSE [err |-> "", metadata |-> tarballData.entries[i].body.meta,
               path |-> tarballData.entries[i].Name]
    ELSE extractFrom(tarballData, i + 1)

extractChartYAML(tarballData) ==
    IF ~tarballData.gzip
    THEN [err |-> "failed to create gzip reader", metadata |-> NoMetadata, path |-> <<>>]
    ELSE extractFrom(tarballData, 1)

\* yaml.Marshal(metadata): the fields of chart.Metadata, nothing else
MarshalYAML(metadata) == [ok |-> TRUE, meta |-> [metadata EXCEPT !.unknown = FALSE]]

\* replaceChartYAML
replaceChartYAML(tarballData, chartYAMLPath, metadata) ==
    IF ~tarballData.gzip \/ tarballData.brokenAt # 0
    THEN [err |-> "failed to read tar entry", data |-> tarballData]
    ELSE [err |-> "",
          data |-> [tarballData EXCEPT !.entries =
                      [i \in 1..Len(tarballData.entries) |->
                          IF tarballData.entries[i].Name = chartYAMLPath
                          THEN [tarballData.entries[i] EXCEPT !.body = MarshalYAML(metadata)]
                          ELSE tarballData.entries[i]]]]

ReportOf(dep, one) ==
    [Name |-> dep.Name, OriginalURL |-> dep.Repository, NewURL |-> one.NewURL,
     Skipped |-> one.Skipped, SkipReason |-> one.SkipReason]

\* A skipped dependency counted as a modification.
RECURSIVE rewriteDepsSkipModifies(_, _)
rewriteDepsSkipModifies(deps, proxyHost) ==
    IF deps = <<>> THEN [deps |-> <<>>, report |-> <<>>, modified |-> FALSE]
    ELSE IF Head(deps).isNil
    THEN [rewriteDepsSkipModifies(Tail(deps), proxyHost) EXCEPT !.deps = <<Head(deps)>> \o @]
    ELSE [deps |-> <<[Head(deps) EXCEPT
                        !.Repository = rewriteOne(Head(deps).Repository, proxyHost).Repository]>>
                      \o rewriteDepsSkipModifies(Tail(deps), proxyHost).deps,
          report |-> <<ReportOf(Head(deps), rewriteOne(Head(deps).Repository, proxyHost))>>
                      \o rewriteDepsSkipModifies(Tail(deps), proxyHost).report,
          modified |-> TRUE]

\* rewriteChartDependencies, lines 59-99: the loop over metadata.Dependencies
RECURSIVE rewriteDeps(_, _)
rewriteDeps(deps, proxyHost) ==
    IF deps = <<>> THEN [deps |-> <<>>, report |-> <<>>, modified |-> FALSE]
    ELSE IF Head(deps).isNil
    THEN [rewriteDeps(Tail(deps), proxyHost) EXCEPT !.deps = <<Head(deps)>> \o @]
    ELSE [deps |-> <<[Head(deps) EXCEPT
                        !.Repository = rewriteOne(Head(deps).Repository, proxyHost).Repository]>>
                      \o rewriteDeps(Tail(deps), proxyHost).deps,
          report |-> <<ReportOf(Head(deps), rewriteOne(Head(deps).Repository, proxyHost))>>
                      \o rewriteDeps(Tail(deps), proxyHost).report,
          modified |-> rewriteOne(Head(deps).Repository, proxyHost).modified
                          \/ rewriteDeps(Tail(deps), proxyHost).modified]

NoRewriteResult == [Modified |-> FALSE, Dependencies |-> <<>>]

\* Lines 101-116, rw being the loop's outcome and rp replaceChartYAML's
rewriteReplaced(tarballData, rw, rp) ==
    IF rp.err # ""
    THEN [data |-> tarballData, result |-> [Modified |-> TRUE, Dependencies |-> rw.report],
          err |-> rp.err]
    ELSE [data |-> rp.data, result |-> [Modified |-> TRUE, Dependencies |-> rw.report],
          err |-> ""]

\* Lines 59-116, ex being extractChartYAML's outcome and rw the loop's
rewriteLooped(tarballData, ex, rw) ==
    IF ~rw.modified
    THEN [data |-> tarballData, result |-> [Modified |-> FALSE, Dependencies |-> rw.report],
          err |-> ""]
    ELSE rewriteReplaced(tarballData, rw,
                         replaceChartYAML(tarballData, ex.path,
                                          [ex.metadata EXCEPT !.deps = rw.deps]))

\* Lines 45-57, ex being extractChartYAML's outcome
rewriteExtracted(tarballData, proxyHost, ex) ==
    IF ex.err # "" THEN [data |-> tarballData, result |-> NoRewriteResult, err |-> ex.err]
    ELSE IF Len(ex.metadata.deps) = 0
    THEN [data |-> tarballData, result |-> NoRewriteResult, err |-> ""]
    ELSE rewriteLooped(tarballData, ex, rewriteDeps(ex.metadata.deps, proxyHost))

\* rewriteChartDependencies on an archive
rewriteTarball(tarballData, proxyHost) ==
    rewriteExtracted(tarballData, proxyHost, extractChartYAML(tarballData))

\* prepareChart, lines 125-137: the tarball that is packed
packedTarball(tarballData, rewriteOpts) ==
    IF rewriteOpts.Enabled /\ rewriteOpts.ProxyHost # <<>>
    THEN IF rewriteTarball(tarballData, rewriteOpts.ProxyHost).err = ""
            /\ rewriteTarball(tarballData, rewriteOpts.ProxyHost).result.Modified
         THEN rewriteTarball(tarballData, rewriteOpts.ProxyHost).data
         ELSE tarballData
    ELSE tarballData

DepChoices ==
    {NilDep,
     Dep("redis", <<"https://", "charts.example.com", "/", "repo">>),
     Dep("common", <<"oci://", "h1", "/", "a", "/", "b">>),
     Dep("local", <<"file://", "..", "/", "sub">>),
     Dep("aliased", <<"@", "myrepo">>),
     Dep("old", <<"ftp://", "h1">>),
     Dep("bare", <<>>)}

DepLists == UNION {[1..k -> DepChoices] : k \in 0..MaxDeps}

ChartYAML(ds, unknown) ==
    [Name |-> <<"c", "/", "Chart.yaml">>,
     body |-> [ok |-> TRUE, meta |-> [deps |-> ds, unknown |-> unknown]]]

BadChartYAML == [Name |-> <<"c", "/", "Chart.yaml">>, body |-> [ok |-> FALSE, meta |-> NoMetadata]]

SubChartYAML ==
    [Name |-> <<"c", "/", "charts", "/", "sub", "/", "Chart.yaml">>,
     body |-> [ok |-> TRUE,
               meta |-> [deps |-> <<Dep("inner", <<"https://", "h1">>)>>, unknown |-> FALSE]]]

ValuesYAML == [Name |-> <<"c", "/", "values.yaml">>, body |-> [ok |-> TRUE, meta |-> NoMetadata]]

Layouts(ds, unknown) ==
    {<<ChartYAML(ds, unknown), ValuesYAML, SubChartYAML>>,
     <<ValuesYAML, ChartYAML(ds, unknown), ChartYAML(ds, unknown)>>,
     <<ValuesYAML>>,
     <<BadChartYAML, ValuesYAML>>}

Tarballs ==
    {[gzip |-> gz, entries |-> es, brokenAt |-> br] :
        gz \in BOOLEAN, br \in {0, 1, 3},
        es \in UNION {Layouts(ds, unknown) : ds \in DepLists, unknown \in BOOLEAN}}

InitArchive ==
    /\ Idle
    /\ call \in [fn : {"rewriteChart"}, tarball : Tarballs, proxyHost : ProxyHosts]
    /\ result = NoResult

\* rewriteChartDependencies on the tarball, and once more on what it returned
RewriteChart ==
    /\ call.fn = "rewriteChart"
    /\ Return([once |-> rewriteTarball(call.tarball, call.proxyHost),
               twice |-> rewriteTarball(rewriteTarball(call.tarball, call.proxyHost).data,
                                        call.proxyHost)])

NextArchive == RewriteChart

SpecArchive == InitArchive /\ [][NextArchive]_vars

----------------------------------------------------------------------------
(* Manifests.GetIndex on its own: callers ask for the index of an upstream *)
(* host while time passes and the hosts start and stop answering.          *)

IndexKeys == {<<h>> : h \in Hosts}

InitIndex ==
    /\ manifests = <<>>
    /\ blobs = <<>>
    /\ cache = <<>>
    /\ now = 0
    /\ upstream \in [Hosts -> UpstreamModes]
    /\ config = [RewriteDependencies |-> FALSE, ProxyHost |-> <<"proxy.example">>]
    /\ tsInput = NoChartVersion
    /\ stamp = NoStamp
    /\ call = NoCall
    /\ result = NoResult

\* m.GetIndex(repoURLPath): the cache is what the call leaves, the result is
\* the pair it returns
CallGetIndex ==
    \E repoURLPath \in IndexKeys :
        /\ call' = [fn |-> "GetIndex", repoURLPath |-> repoURLPath]
        /\ cache' = GetIndex(cache, upstream, repoURLPath, now).cache
        /\ result' = [set |-> TRUE,
                      val |-> [c |-> GetIndex(cache, upstream, repoURLPath, now).c,
                               err |-> GetIndex(cache, upstream, repoURLPath, now).err,
                               hit |-> CacheHit(cache, repoURLPath, now),
                               up |-> upstream]]
        /\ UNCHANGED <<manifests, blobs, now, upstream, config, tsInput, stamp>>

\* Any host starts or stops answering properly.
IndexUpstreamChange ==
    \E h \in Hosts, mode \in UpstreamModes :
        /\ upstream[h] # mode
        /\ upstream' = [upstream EXCEPT ![h] = mode]
        /\ UNCHANGED <<manifests, blobs, cache, now, config, tsInput, stamp, call, result>>

NextIndex ==
    \/ CallGetIndex
    \/ AdvanceTime
    \/ IndexUpstreamChange

SpecIndex == InitIndex /\ [][NextIndex]_vars

----------------------------------------------------------------------------
(* prepareChart on its own: it is called for charts and versions the hosts *)
(* list, list without a URL or do not list, while the hosts start and stop *)
(* answering (within the TTL of what the index cache holds).               *)

PrepareRepos == {<<"h1", "/", "c">>, <<"h2", "/", "c">>, <<"h2", "/", "b">>, <<"h1", "/", "b">>}

PrepareRefs == {<<>>, <<"2.0.0">>, <<"3.0.0">>, <<"1.0.0", "_", "b">>}

InitPrepare ==
    /\ manifests = <<>>
    /\ blobs = <<>>
    /\ cache = <<>>
    /\ now = 0
    /\ upstream \in [Hosts -> UpstreamModes]
    /\ config = [RewriteDependencies |-> FALSE, ProxyHost |-> <<"proxy.example">>]
    /\ tsInput = NoChartVersion
    /\ stamp = NoStamp
    /\ call = NoCall
    /\ result = NoResult

\* m.prepareChart(ctx, repo, reference, rewriteOpts)
CallPrepareChart ==
    \E repo \in PrepareRepos, reference \in PrepareRefs :
        /\ call' = [fn |-> "prepareChart", repo |-> repo, reference |-> reference]
        /\ Commit(prepareChart(Stores, upstream, now, repo, reference, RewriteOptionsOf(config)))
        /\ result' = [set |-> TRUE,
                      val |-> prepareChart(Stores, upstream, now, repo, reference,
                                           RewriteOptionsOf(config)).err]
        /\ UNCHANGED <<now, upstream, config, tsInput, stamp>>

NextPrepare ==
    \/ CallPrepareChart
    \/ IndexUpstreamChange

SpecPrepare == InitPrepare /\ [][NextPrepare]_vars

----------------------------------------------------------------------------
(* generateOCIAnnotations on its own: the annotations of a manifest from   *)
(* the metadata of a chart and a creation time.                            *)

MaxMaintainers == 2

AnnotationTitle == "org.opencontainers.image.title"
AnnotationVersion == "org.opencontainers.image.version"
AnnotationDescription == "org.opencontainers.image.description"
AnnotationURL == "org.opencontainers.image.url"
AnnotationSource == "org.opencontainers.image.source"
AnnotationAuthors == "org.opencontainers.image.authors"
AnnotationCreated == "org.opencontainers.image.created"

\* The value is set when it is not empty.
addToMap(m, key, value) == IF value = <<>> THEN m ELSE (key :> value) @@ m

\* "Name (email)", or the bare name when there is no email
AuthorOf(maintainer) ==
    IF maintainer.Email = <<>> THEN maintainer.Name
    ELSE maintainer.Name \o <<" (">> \o maintainer.Email \o <<")">>

RECURSIVE AuthorsOf(_)
AuthorsOf(maintainers) ==
    IF maintainers = <<>> THEN <<>>
    ELSE IF Len(maintainers) = 1 THEN AuthorOf(maintainers[1])
    ELSE AuthorOf(maintainers[1]) \o <<", ">> \o AuthorsOf(Tail(maintainers))

\* The annotations generated from the fields of the metadata.
generateChartOCIAnnotations(meta, creationTime) ==
    addToMap(addToMap(addToMap(addToMap(addToMap(addToMap(
        (AnnotationCreated :> FormatRFC3339(creationTime)),
        AnnotationTitle, meta.Name),
        AnnotationVersion, meta.Version),
        AnnotationDescription, meta.Description),
        AnnotationURL, meta.Home),
        AnnotationSource, IF meta.Sources = <<>> THEN <<>> ELSE meta.Sources[1]),
        AnnotationAuthors, AuthorsOf(meta.Maintainers))

\* The annotations that a custom annotation does not replace.
immutableOciAnnotations == {AnnotationTitle, AnnotationVersion}

\* Every custom annotation copied, the protected keys too.
generateOCIAnnotationsUnprotected(meta, creationTime) ==
    IF meta.isNil THEN (AnnotationCreated :> FormatRFC3339(creationTime))
    ELSE meta.Annotations @@ generateChartOCIAnnotations(meta, creationTime)

generateOCIAnnotations(meta, creationTime) ==
    IF meta.isNil THEN (AnnotationCreated :> FormatRFC3339(creationTime))
    ELSE [k \in DOMAIN meta.Annotations \ immutableOciAnnotations |-> meta.Annotations[k]]
         @@ generateChartOCIAnnotations(meta, creationTime)

Maintainers == {[Name |-> <<"Alice">>, Email |-> <<>>],
                [Name |-> <<"Bob">>, Email |-> <<"bob@example.com">>]}

CustomKeys == {AnnotationTitle, AnnotationVersion, AnnotationDescription, AnnotationURL,
               AnnotationSource, AnnotationAuthors, AnnotationCreated,
               "artifacthub.io/changes"}

\* The annotations of Chart.yaml: at most two keys, each with the chart
\* author's own value.
CustomAnnotations ==
    {[k \in K |-> <<"custom", k>>] : K \in {K \in SUBSET CustomKeys : Cardinality(K) <= 2}}

NilMetadata ==
    [isNil |-> TRUE, Name |-> <<>>, Version |-> <<>>, Description |-> <<>>, Home |-> <<>>,
     Sources |-> <<>>, Maintainers |-> <<>>, Annotations |-> <<>>]

Metadatas ==
    {NilMetadata} \cup
    [isNil : {FALSE}, Name : {<<>>, <<"c">>}, Version : {<<>>, <<"1.0.0">>},
     Description : {<<>>, <<"a chart">>}, Home : {<<>>, <<"https://", "c.example">>},
     Sources : {<<>>, << <<"https://", "src1">> >>, << <<"https://", "src1">>, <<"https://", "src2">> >>},
     Maintainers : UNION {[1..k -> Maintainers] : k \in 0..MaxMaintainers},
     Annotations : CustomAnnotations]

InitAnnotations ==
    /\ Idle
    /\ call \in [fn : {"generateOCIAnnotations"}, meta : Metadatas,
                  creationTime : {ZeroTime, [hi |-> 25000, lo |-> 7, nsec |-> 5]}]
    /\ result = NoResult

GenerateAnnotations ==
    /\ call.fn = "generateOCIAnnotations"
    /\ Return(generateOCIAnnotations(call.meta, call.creationTime))

NextAnnotations == GenerateAnnotations

SpecAnnotations == InitAnnotations /\ [][NextAnnotations]_vars

----------------------------------------------------------------------------
(* What a client would be answered in the current state.                   *)

ServeManifest(method, r, ref) ==
    Handle(Stores, upstream, now, method, ManifestURL(r, ref), RewriteOptionsOf(config))

ServeTags(r, last, n) ==
    HandleTags(Stores, upstream, now, "GET", TagsURL(r), last, n, RewriteOptionsOf(config))

\* The (repository, key) pairs of the records of a Manifest Store.
Keys(ms) == UNION {{<<r, k>> : k \in DOMAIN ms[r]} : r \in DOMAIN ms}

Record(ms, rk) == ms[rk[1]][rk[2]]

EmptyStores == [manifests |-> <<>>, blobs |-> <<>>, cache |-> <<>>]

RepoPath(r) == Join(SubSeq(Split(r), 1, Len(Split(r)) - 1))
RepoChart(r) == Split(r)[Len(Split(r))]

\* The index as GetIndex would return it now, and the chart's entries in it.
IndexNow(r) == GetIndex(cache, upstream, RepoPath(r), now)

EntriesNow(r) ==
    IF IndexNow(r).err = "" /\ RepoChart(r) \in DOMAIN IndexNow(r).c.Entries
    THEN IndexNow(r).c.Entries[RepoChart(r)] ELSE <<>>

\* The tarball of an entry can be fetched now.
Fetchable(r, e) ==
    Len(e.URLs) > 0 /\ download(upstream, DownloadUrl(RepoPath(r), e)).err = ""

IsSorted(tags) == \A i \in 1..Len(tags) : \A j \in i..Len(tags) : ~StrLess(tags[j], tags[i])

Elems(seq) == {seq[i] : i \in 1..Len(seq)}

StrippedVersions(entries) == {TrimPrefix(entries[i].Version, "v") : i \in 1..Len(entries)}

LocalTags(ms, r) ==
    IF r \in DOMAIN ms THEN {k \in DOMAIN ms[r] : ~Contains(k, "sha256:")} ELSE {}

----------------------------------------------------------------------------
(* The claims.                                                             *)

\* C1: in every reachable state every record of the Manifest Store has all
\* the digests of its refs in the Blob Store, and after a successful
\* manifest GET a blob GET of each digest the served record references
\* succeeds.
C1_RefsPresentInBlobStore ==
    /\ \A rk \in Keys(manifests) : Record(manifests, rk).Refs \subseteq DOMAIN blobs
    /\ \A r \in ReqRepos, ref \in ReqRefs :
          LET out == ServeManifest("GET", r, ref)
          IN  out.resp.status = 200 =>
                \A d \in out.S.manifests[r][TargetOf(ref)].Refs :
                    BlobsHandle(out.S.blobs, "GET", d).status = 200

\* C2: a step that removes a digest from the Blob Store leaves no record in
\* the Manifest Store that lists that digest in its refs.
C2_EvictionIsReferenceCounted ==
    [][\A d \in DOMAIN blobs \ DOMAIN blobs' :
          \A rk \in Keys(manifests') : d \notin Record(manifests', rk).Refs]_vars

\* C3: a record whose materialisation is at most CacheTTL old after a step
\* is still in the Manifest Store after that step, and so are its blobs in
\* the Blob Store.
C3_RetainedForCacheTTL ==
    [][\A rk \in Keys(manifests) :
          now' - Record(manifests, rk).CreatedAt <= CacheTTL =>
              /\ rk \in Keys(manifests')
              /\ Record(manifests, rk).Refs \subseteq DOMAIN blobs']_vars

\* C4: a successful manifest GET carries the digest and the length of the
\* bytes it serves, a successful HEAD those of the record stored under the
\* requested reference, and every digest-shaped key is the digest of the
\* bytes stored under it.
C4_DigestHeaderMatchesBytes ==
    /\ \A r \in ReqRepos, ref \in ReqRefs \cup DigestKeys(manifests) :
          LET g == ServeManifest("GET", r, ref)
              h == ServeManifest("HEAD", r, ref)
          IN  /\ g.resp.status = 200 =>
                    /\ g.resp.digest = DigestFromBytes(g.resp.body)
                    /\ g.resp.length = Len(g.resp.body)
              /\ h.resp.status = 200 =>
                    \E k \in {TargetOf(ref), SemVerReplace(TargetOf(ref))} :
                        /\ Found(h.S.manifests, r, k)
                        /\ h.resp.digest = DigestFromBytes(h.S.manifests[r][k].Blob)
                        /\ h.resp.length = Len(h.S.manifests[r][k].Blob)
    /\ \A rk \in Keys(manifests) :
          Contains(rk[2], "sha256:") => rk[2] = DigestFromBytes(Record(manifests, rk).Blob)

\* C4 happens: a record is stored under its digest and a tag of the same
\* repository is served with 200.
C4_Witness ==
    \E r \in ReqRepos, ref \in ReqRefs :
        /\ ServeManifest("HEAD", r, ref).resp.status = 200
        /\ ServeManifest("GET", r, ref).resp.status = 200
        /\ r \in DOMAIN manifests
        /\ \E k \in DOMAIN manifests[r] : Contains(k, "sha256:")

\* C5: the bytes of a tag's record, prepared earlier from whatever the
\* stores then held, are the bytes a fresh preparation of the same chart
\* version produces now from empty stores.
C5_ReproducibleManifestBytes ==
    \A rk \in Keys(manifests) :
        ~Contains(rk[2], "sha256:") =>
            LET p == prepareChart(EmptyStores, upstream, now, rk[1], rk[2],
                                  RewriteOptionsOf(config))
            IN  (p.err = NoErr /\ Found(p.S.manifests, rk[1], rk[2])) =>
                    /\ p.S.manifests[rk[1]][rk[2]].Blob = Record(manifests, rk).Blob
                    /\ DigestFromBytes(p.S.manifests[rk[1]][rk[2]].Blob) \in DOMAIN manifests[rk[1]]

\* C5 happens: a record prepared at an earlier time, of a chart version the
\* index gives no creation time for, and a fresh preparation that succeeds.
C5_Witness ==
    \E rk \in Keys(manifests) :
        /\ ~Contains(rk[2], "sha256:")
        /\ Record(manifests, rk).CreatedAt < now
        /\ \E i \in 1..Len(EntriesNow(rk[1])) :
              /\ TrimPrefix(EntriesNow(rk[1])[i].Version, "v") = rk[2]
              /\ IsZero(EntriesNow(rk[1])[i].Created)
        /\ prepareChart(EmptyStores, upstream, now, rk[1], rk[2],
                        RewriteOptionsOf(config)).err = NoErr

\* The seconds of t after 2020-01-01T00:00:00Z as four big-endian bytes.
OffsetBytes(t) ==
    LET borrow == IF t.lo < baseTime.lo THEN 1 ELSE 0
        dlo == t.lo + 65536 * borrow - baseTime.lo
        dhi == t.hi - baseTime.hi - borrow
    IN  <<dhi \div 256, dhi % 256, dlo \div 256, dlo % 256>>

\* C6: the timestamp returned for a chart version is the index's creation
\* time when that is not zero, and otherwise lies after 2020-01-01T00:00:00Z
\* by the seconds the first four bytes of sha256(name@version) spell;
\* whenever the call was made.
C6_TimestampIsPureFunction ==
    stamp.set =>
        IF ~IsZero(tsInput.Created)
        THEN stamp.val = tsInput.Created
        ELSE /\ stamp.val.nsec = 0
             /\ OffsetBytes(stamp.val) = Sha256First4(tsInput.Name \o <<"@">> \o tsInput.Version)

\* C6 happens: the function has returned for a version without creation
\* time, and time has passed since the process started.
C6_Witness == stamp.set /\ IsZero(tsInput.Created) /\ now > 0

\* C7: a manifest HEAD has the status and the Docker-Content-Digest,
\* Content-Type and Content-Length of the manifest GET of the same URL in
\* the same state.
C7_HeadIdenticalToGet ==
    \A r \in ReqRepos, ref \in ReqRefs \cup DigestKeys(manifests) :
        LET g == ServeManifest("GET", r, ref).resp
            h == ServeManifest("HEAD", r, ref).resp
        IN  /\ g.status = h.status
            /\ g.digest = h.digest
            /\ g.ctype = h.ctype
            /\ g.length = h.length

C9_UnderscoreResolvesToPlus ==
    \A r \in ReqRepos, ref \in ReqRefs, method \in {"GET", "HEAD"} :
        (/\ Contains(ref, "_")
         /\ \E i \in 1..Len(EntriesNow(r)) :
               /\ EntriesNow(r)[i].Version = ReplaceAll(ref, "_", "+")
               /\ Fetchable(r, EntriesNow(r)[i]))
        => /\ ServeManifest(method, r, ref).resp.status = 200
           /\ ServeManifest(method, r, ref).resp.digest
                = ServeManifest(method, r, ReplaceAll(ref, "_", "+")).resp.digest

\* C10 as claimed: whenever the index can be obtained, tags/list answers 200
\* with the chart's versions in the index, "v" stripped, sorted ascending;
\* and an answer given while it cannot be obtained lists the local tags
\* that are not digests.
C10_TagsFromIndexElseLocal ==
    \A r \in ReqRepos :
        LET out == ServeTags(r, <<>>, NoN)
        IN  /\ IndexNow(r).err = "" =>
                  /\ out.resp.status = 200
                  /\ IsSorted(out.resp.tags)
                  /\ Elems(out.resp.tags) = StrippedVersions(EntriesNow(r))
            /\ (IndexNow(r).err # "" /\ out.resp.status = 200) =>
                  /\ IsSorted(out.resp.tags)
                  /\ Elems(out.resp.tags) = LocalTags(out.S.manifests, r)

\* C10 amended: tags/list of a repository the Manifest Store has no entry
\* for first prepares the chart's latest version and answers with the error
\* of that preparation; every other tags/list answers 200, with the chart's
\* versions of the index GetIndex then returns, "v" stripped and sorted
\* ascending, or, when GetIndex returns no index, with the local tags that
\* are not digests.
C10_TagsAfterPreparation ==
    \A r \in ReqRepos :
        LET out == ServeTags(r, <<>>, NoN)
            p == prepareChart(Stores, upstream, now, r, <<>>, RewriteOptionsOf(config))
            fails == r \notin DOMAIN manifests /\ p.err # NoErr
        IN  /\ fails => (out.resp.status = p.err.Status /\ out.resp.code = p.err.Code)
            /\ ~fails => out.resp.status = 200
            /\ out.resp.status = 200 =>
                  /\ IsSorted(out.resp.tags)
                  /\ LET index == GetIndex(out.S.cache, upstream, RepoPath(r), now).c
                     IN  IF ~index.isNil
                         THEN /\ Elems(out.resp.tags) =
                                   IF RepoChart(r) \in DOMAIN index.Entries
                                   THEN StrippedVersions(index.Entries[RepoChart(r)])
                                   ELSE {}
                              /\ RepoChart(r) \in DOMAIN index.Entries =>
                                   Len(out.resp.tags) = Len(index.Entries[RepoChart(r)])
                         ELSE Elems(out.resp.tags) = LocalTags(out.S.manifests, r)

\* C10 happens: a tags/list is answered from the local tags because no
\* index is to be had, and another from an index holding a version that is
\* not materialised.
C10_Witness ==
    /\ \E r \in ReqRepos :
          LET out == ServeTags(r, <<>>, NoN)
          IN  /\ out.resp.status = 200
              /\ GetIndex(out.S.cache, upstream, RepoPath(r), now).c.isNil
              /\ out.resp.tags # <<>>
    /\ \E r \in ReqRepos :
          LET out == ServeTags(r, <<>>, NoN)
          IN  /\ out.resp.status = 200
              /\ ~GetIndex(out.S.cache, upstream, RepoPath(r), now).c.isNil
              /\ \E i \in 1..Len(out.resp.tags) : ~Found(out.S.manifests, r, out.resp.tags[i])

\* C11: with last = x given, only tags lexicographically greater than x are
\* listed, also when x is greater than or equal to every tag.
C11_LastIsExclusiveLowerBound ==
    (result.set /\ call.last # <<>>) =>
        \A i \in 1..Len(result.val) : StrLess(call.last, result.val[i])

\* C12: with n = k given, at most k tags are listed: the first k, in
\* ascending order, of the sorted tags as the last parameter left them;
\* none when k = 0.
C12_NLimitsToFirstK ==
    (result.set /\ call.n.present) =>
        LET rest == ApplyLast(SortStrings(call.tags), call.last)
        IN  /\ Len(result.val) <= call.n.val
            /\ Len(result.val) = IF call.n.val < Len(rest) THEN call.n.val ELSE Len(rest)
            /\ \A i \in 1..Len(result.val) : result.val[i] = rest[i]
            /\ IsSorted(result.val)
            /\ Elems(result.val) \subseteq Elems(call.tags)
            /\ call.n.val = 0 => result.val = <<>>

\* C12 happens: last and n are both given, more than n tags are greater
\* than last, and n of them are listed.
C12_Witness ==
    /\ result.set /\ call.n.present /\ call.last # <<>>
    /\ Cardinality({i \in 1..Len(call.tags) : StrLess(call.last, call.tags[i])}) > call.n.val
    /\ call.n.val > 0
    /\ Len(result.val) = call.n.val
    /\ \A i \in 1..Len(result.val) : StrLess(call.last, result.val[i])

\* The target of the blob request in flight.
CallTarget == BlobElems(call.urlPath)[Len(BlobElems(call.urlPath))]

\* C13: the step in which a blob GET or HEAD (on a path with a repository)
\* answers gives 400 NAME_INVALID for a malformed digest, 404 BLOB_UNKNOWN
\* for a digest the Blob Store does not hold at that step, and otherwise 200
\* with the requested digest, the size of the stored blob as length and,
\* for GET, the stored bytes; whatever was deleted or put since the Stat.
C13_BlobResponses ==
    [][(/\ ~result.set /\ result'.set
        /\ call.method \in {"GET", "HEAD"}
        /\ Len(BlobElems(call.urlPath)) >= 4)
       => LET rsp == result'.val
          IN  IF ~NewHashOk(CallTarget)
              THEN rsp.status = 400 /\ rsp.code = "NAME_INVALID"
              ELSE IF CallTarget \notin DOMAIN blobs
              THEN rsp.status = 404 /\ rsp.code = "BLOB_UNKNOWN"
              ELSE /\ rsp.status = 200
                   /\ rsp.digest = CallTarget
                   /\ rsp.length = Len(blobs[CallTarget])
                   /\ call.method = "GET" =>
                         (rsp.body = blobs[CallTarget] /\ rsp.length = Len(rsp.body))]_vars

\* C13 happens: a GET has answered 404 for a blob that was there at its
\* Stat and deleted before its Get, and the store is again without it.
C13_Witness ==
    /\ result.set /\ call.method = "GET" /\ call.size > 0
    /\ result.val.status = 404
    /\ CallTarget \notin DOMAIN blobs

\* The segments of a path, an empty last one dropped.
Segments(urlPath) == BlobElems(urlPath)

RoutedPaths == {"blob", "manifest", "tags", "catalog"}

\* C14: a request whose method is not GET or HEAD leaves the Manifest Store
\* and the Blob Store as they were and, on a manifest, blob, tags or catalog
\* path, is answered with the error METHOD_UNKNOWN.
C14_ReadOnlySurface ==
    (result.set /\ call.fn = "v2" /\ call.method \notin {"GET", "HEAD"}) =>
        /\ manifests = <<>>
        /\ blobs = <<>>
        /\ result.val.route \in RoutedPaths =>
              (result.val.resp.status >= 400 /\ result.val.resp.code = "METHOD_UNKNOWN")

\* The classification by the trailing segments, an empty last one dropped.
ClassOfSegments(sg) ==
    IF Len(sg) >= 3 /\ (\/ sg[Len(sg) - 1] = Seg("blobs")
                        \/ sg[Len(sg) - 2] = Seg("blobs") /\ sg[Len(sg) - 1] = Seg("uploads"))
    THEN "blob"
    ELSE IF Len(sg) >= 4 /\ sg[Len(sg) - 1] = Seg("manifests") THEN "manifest"
    ELSE IF Len(sg) >= 4 /\ sg[Len(sg) - 1] = Seg("tags") THEN "tags"
    ELSE IF Len(sg) >= 2 /\ sg[Len(sg)] = Seg("_catalog") THEN "catalog"
    ELSE IF Len(sg) >= 1 /\ sg[Len(sg)] = Seg("v2") THEN "v2"
    ELSE "unknown"

ClassOfPath(urlPath) ==
    IF urlPath = <<"/">> \/ urlPath = <<>> THEN "home"
    ELSE IF urlPath \in AdminPaths THEN "admin"
    ELSE ClassOfSegments(Segments(urlPath))

\* C15: the router gives a path to the handler that the trailing segments
\* name once an empty last segment is dropped (so a path and the same path
\* with a trailing "/" go the same way), and answers 404 METHOD_UNKNOWN to
\* a path of no class.
C15_RouterClassification ==
    (result.set /\ call.fn = "v2") =>
        /\ result.val.route = ClassOfPath(call.urlPath)
        /\ result.val.route = "unknown" =>
              (result.val.resp.status = 404 /\ result.val.resp.code = "METHOD_UNKNOWN")

\* C16: on a manifest or tags path none of whose repository segments is
\* v2, the repository name is the segments in the order of the path, joined
\* by "/", for every number of segments up to MaxSegments (more than two
\* blocks of the sort).
C16_RepoNameInInputOrder ==
    (result.set /\ call.fn = "repo" /\ call.at = 0) =>
        result.val = Join(PathSegments(call.k, 0))

\* C16 happens: a name of more segments than two blocks of the sort has
\* been put back in the order of the path.
C16_Witness ==
    /\ result.set /\ call.fn = "repo" /\ call.at = 0
    /\ call.k > 2 * blockSize
    /\ result.val = Join(PathSegments(call.k, 0))
    /\ result.val # Join(Reverse(PathSegments(call.k, 0)))

\* C17: every segment between the leading "/v2/" and the operation token
\* is in the repository name, also when one of them is the literal v2.
C17_AllSegmentsCaptured ==
    (result.set /\ call.fn = "repo") =>
        result.val = Join(PathSegments(call.k, call.at))

\* The upstream host path of a catalog path /v2/<prefix>/_catalog.
CatalogPrefix(urlPath) ==
    Join(SubSeq(Tail(Split(urlPath)), 2, Len(Tail(Split(urlPath))) - 1))

HasCatalogPrefix(urlPath) ==
    /\ Len(Tail(Split(urlPath))) > 2
    /\ Tail(Split(urlPath))[1] = Seg("v2")
    /\ Tail(Split(urlPath))[Len(Tail(Split(urlPath)))] = Seg("_catalog")
    /\ Len(CatalogPrefix(urlPath)) = 1
    /\ CatalogPrefix(urlPath)[1] \in Hosts

\* The chart names of the index the host of the prefix serves.
PrefixedNames(prefix) ==
    {prefix \o <<"/">> \o r : r \in DOMAIN IndexYaml(prefix[1]).Entries}

\* C18: GET /v2/<prefix>/_catalog with n given or not, the host of the prefix
\* answering, lists <prefix>/<chart-name> for entry names of the index of
\* that prefix: the first n of them or all if there are fewer, sorted.
C18_CatalogOfPrefix ==
    (/\ result.set /\ call.fn = "v2" /\ call.method = "GET"
     /\ HasCatalogPrefix(call.urlPath)
     /\ call.nStr = "" \/ AtoiOk(call.nStr))
    => /\ result.val.route = "catalog"
       /\ result.val.resp.status = 200
       /\ Elems(result.val.resp.body) \subseteq PrefixedNames(CatalogPrefix(call.urlPath))
       /\ IsSorted(result.val.resp.body)
       /\ Len(result.val.resp.body) =
             IF CatalogN(call.nStr) < Cardinality(PrefixedNames(CatalogPrefix(call.urlPath)))
             THEN CatalogN(call.nStr)
             ELSE Cardinality(PrefixedNames(CatalogPrefix(call.urlPath)))

\* C19: whatever was prepared and evicted, GET /v2/_catalog lists a
\* repository name only if the Manifest Store holds a record for it.
C19_CatalogListsMaterialised ==
    \A o \in HandleCatalog(Stores, upstream, now, "GET", CatalogURL, "") :
        \A i \in 1..Len(o.resp.body) :
            /\ o.resp.body[i] \in DOMAIN manifests
            /\ DOMAIN manifests[o.resp.body[i]] # {}

\* The host and the path of a URL that has a scheme, as they are written.
WrittenHost(u) == IF Len(u) = 1 \/ u[2] = "/" THEN <<>> ELSE <<u[2]>>

WrittenPath(u) ==
    TrimPrefix(SubSeq(u, Len(WrittenHost(u)) + 2, Len(u)), "/")

WellFormed(u) == ~Contains(u, "%zz")

\* C20: a dependency whose repository URL has the scheme http, https or oci
\* gets oci://<proxyHost>/H/P (oci://<proxyHost>/H for an empty path) as
\* its repository; an empty URL, an alias (@, alias:) and a file reference
\* are skipped with the reasons "empty URL", "Helm repo alias" and "local
\* file reference"; a URL of any other scheme is skipped with an error;
\* a skipped dependency keeps its repository.
C20_DependencyURLRewrite ==
    (result.set /\ call.fn = "rewrite") =>
        LET u == call.url
            r == result.val
        IN  IF u = <<>>
            THEN r.Skipped /\ r.SkipReason = <<"empty URL">> /\ r.Repository = u
            ELSE IF u[1] \in {"@", "alias:"}
            THEN r.Skipped /\ r.SkipReason = <<"Helm repo alias">> /\ r.Repository = u
            ELSE IF u[1] \in {"file:", "file://"}
            THEN r.Skipped /\ r.SkipReason = <<"local file reference">> /\ r.Repository = u
            ELSE IF u[1] \in {"https://", "http://", "oci://"} /\ WellFormed(u)
            THEN /\ ~r.Skipped
                 /\ r.Repository =
                       IF WrittenPath(u) = <<>>
                       THEN <<"oci://">> \o call.proxyHost \o <<"/">> \o WrittenHost(u)
                       ELSE <<"oci://">> \o call.proxyHost \o <<"/">> \o WrittenHost(u)
                               \o <<"/">> \o WrittenPath(u)
            ELSE r.Skipped /\ r.SkipReason # <<>> /\ r.Repository = u

\* C20 happens: an https URL with a host and a path has been rewritten.
C20_Witness ==
    /\ result.set /\ call.fn = "rewrite"
    /\ call.url = <<"https://", "charts.example.com", "/", "repo">>
    /\ ~result.val.Skipped
    /\ result.val.Repository =
          <<"oci://">> \o call.proxyHost \o <<"/", "charts.example.com", "/", "repo">>

\* The dependencies of the Chart.yaml the rewriter reads in a tarball.
DepsOf(tarballData) == extractChartYAML(tarballData).metadata.deps

Repositories(deps) == [i \in 1..Len(deps) |-> deps[i].Repository]

\* C21: the rewriter applied to its own output gives the dependency
\* repository URLs, and the bytes, that the first application gave.
C21_RewriteIdempotent ==
    (result.set /\ call.fn = "rewriteChart") =>
        /\ result.val.twice.data = result.val.once.data
        /\ Repositories(DepsOf(result.val.twice.data)) =
              Repositories(DepsOf(result.val.once.data))

NonNil(deps) == {i \in 1..Len(deps) : ~deps[i].isNil}

Rewritable(dep) ==
    /\ ~dep.isNil
    /\ shouldRewriteURL(dep.Repository)
    /\ rewriteDependencyURL(dep.Repository, call.proxyHost).err = <<>>

\* The first Chart.yaml of the tarball, which the rewriter reads.
ChartPath(tarballData) == extractChartYAML(tarballData).path

\* C22: the rewriter returns its input with Modified = false when the chart
\* has no dependency or no rewritable one, and its input when it fails (and
\* prepareChart then packs the input); when it succeeds with Modified =
\* true the output has the entries of the input in their order, all but
\* Chart.yaml as they were, and in Chart.yaml every rewritable dependency
\* has the proxied URL and every other dependency the repository it had;
\* the report has one entry for every dependency.
C22_RewriteChangesOnlyDependencyURLs ==
    (result.set /\ call.fn = "rewriteChart") =>
        LET T == call.tarball
            o == result.val.once
            ds == DepsOf(T)
            es == o.data.entries
        IN  /\ o.err # "" =>
                  /\ o.data = T
                  /\ packedTarball(T, [Enabled |-> TRUE, ProxyHost |-> call.proxyHost]) = T
            /\ (o.err = "" /\ \A i \in 1..Len(ds) : ~Rewritable(ds[i])) =>
                  (o.data = T /\ ~o.result.Modified)
            /\ (o.err = "" /\ \E i \in 1..Len(ds) : Rewritable(ds[i])) => o.result.Modified
            /\ (o.err = "" /\ o.result.Modified) =>
                  /\ o.data.gzip /\ o.data.brokenAt = 0
                  /\ Len(es) = Len(T.entries)
                  /\ \A i \in 1..Len(es) :
                        /\ es[i].Name = T.entries[i].Name
                        /\ es[i].Name # ChartPath(T) => es[i] = T.entries[i]
                        /\ es[i].Name = ChartPath(T) =>
                              /\ es[i].body.ok
                              /\ Len(es[i].body.meta.deps) = Len(ds)
                              /\ \A j \in 1..Len(ds) :
                                    es[i].body.meta.deps[j] =
                                       IF Rewritable(ds[j])
                                       THEN [ds[j] EXCEPT !.Repository =
                                               rewriteDependencyURL(ds[j].Repository,
                                                                    call.proxyHost).newURL]
                                       ELSE ds[j]
            /\ o.err = "" => Len(o.result.Dependencies) = Cardinality(NonNil(ds))

\* C22 happens: a chart with a rewritable and a skipped dependency has been
\* rewritten; its Chart.yaml has the proxied URL and the file reference,
\* and values.yaml is what it was.
C22_Witness ==
    /\ result.set /\ call.fn = "rewriteChart"
    /\ DepsOf(call.tarball) = <<Dep("redis", <<"https://", "charts.example.com", "/", "repo">>),
                                Dep("local", <<"file://", "..", "/", "sub">>)>>
    /\ result.val.once.err = "" /\ result.val.once.result.Modified
    /\ Repositories(DepsOf(result.val.once.data)) =
          << <<"oci://">> \o call.proxyHost \o <<"/", "charts.example.com", "/", "repo">>,
             <<"file://", "..", "/", "sub">> >>
    /\ \E i \in 1..Len(call.tarball.entries) :
          /\ call.tarball.entries[i] = ValuesYAML
          /\ result.val.once.data.entries[i] = ValuesYAML

----------------------------------------------------------------------------
(* The validation loop of Manifests.downloadIndex (lines 281-293) on its   *)
(* own, over one chart's version list as yaml.UnmarshalStrict left it.     *)
(* cvs is the loop's own slice header: arr is the backing array, which     *)
(* i.Entries[name] keeps seeing at its full length, n the length of cvs.   *)

MaxVersions == 3

\* chart.Metadata.Validate on an entry whose apiVersion has been filled in
Validate(cv) == cv.Name # <<>> /\ cv.Version # <<>> /\ ValidSemver(cv.Version)

\* append(cvs[:idx], cvs[idx+1:]...): the elements after idx move one place
\* down in the backing array; the place n keeps what it held.
RemoveAt(arr, n, idx) ==
    SubSeq(arr, 1, idx - 1) \o SubSeq(arr, idx + 1, n) \o SubSeq(arr, n, Len(arr))

\* APIVersion = chart.APIVersionV1 when it is empty
WithAPIVersion(arr, idx) ==
    [arr EXCEPT ![idx].APIVersion = IF @ = "" THEN "v1" ELSE @]

\* for idx := len(cvs) - 1; idx >= 0; idx-- (indices from 1 here); what is
\* returned is the list i.Entries[name] holds after the loop.
RECURSIVE validateFrom(_, _, _)
validateFrom(arr, n, idx) ==
    IF idx < 1 THEN arr
    ELSE IF arr[idx].isNil THEN validateFrom(arr, n, idx - 1)
    ELSE IF ~Validate(WithAPIVersion(arr, idx)[idx])
    THEN validateFrom(RemoveAt(WithAPIVersion(arr, idx), n, idx), n - 1, idx - 1)
    ELSE validateFrom(WithAPIVersion(arr, idx), n, idx - 1)

validateEntries(cvs) == validateFrom(cvs, Len(cvs), Len(cvs))

\* Entries of an index.yaml: id tells the entries of a list apart.
EntryKinds ==
    {[isNil |-> FALSE, id |-> 0, Name |-> <<"c">>, Version |-> <<"1.0.0">>, APIVersion |-> "v2"],
     [isNil |-> FALSE, id |-> 0, Name |-> <<"c">>, Version |-> <<"2.0.0">>, APIVersion |-> ""],
     [isNil |-> FALSE, id |-> 0, Name |-> <<"c">>, Version |-> <<>>, APIVersion |-> ""],
     [isNil |-> FALSE, id |-> 0, Name |-> <<>>, Version |-> <<"3.0.0">>, APIVersion |-> "v1"],
     [isNil |-> TRUE, id |-> 0, Name |-> <<>>, Version |-> <<>>, APIVersion |-> ""]}

VersionLists ==
    {[i \in DOMAIN f |-> [f[i] EXCEPT !.id = i]] :
        f \in UNION {[1..k -> EntryKinds] : k \in 0..MaxVersions}}

InitValidate ==
    /\ Idle
    /\ call \in [fn : {"validateEntries"}, cvs : VersionLists]
    /\ result = NoResult

ValidateEntries ==
    /\ call.fn = "validateEntries"
    /\ Return(validateEntries(call.cvs))

NextValidate == ValidateEntries

SpecValidate == InitValidate /\ [][NextValidate]_vars

----------------------------------------------------------------------------
(* prepareChart called on its own while the hosts come to answer 404 as    *)
(* well: a chart listed in an index that is cached has been removed from   *)
(* its host.                                                               *)

\* Hosts whose answers change in this specification.
RemovingHosts == {"h1"}

InitDownload ==
    /\ manifests = <<>>
    /\ blobs = <<>>
    /\ cache = <<>>
    /\ now = 0
    /\ upstream \in [Hosts -> UpstreamModes \cup {NotFound}]
    /\ \A h \in Hosts \ RemovingHosts : upstream[h] = "ok"
    /\ config = [RewriteDependencies |-> FALSE, ProxyHost |-> <<"proxy.example">>]
    /\ tsInput = NoChartVersion
    /\ stamp = NoStamp
    /\ call = NoCall
    /\ result = NoResult

\* A host changes what it answers.
DownloadUpstreamChange ==
    \E h \in RemovingHosts, mode \in UpstreamModes \cup {NotFound} :
        /\ upstream[h] # mode
        /\ upstream' = [upstream EXCEPT ![h] = mode]
        /\ UNCHANGED <<manifests, blobs, cache, now, config, tsInput, stamp, call, result>>

NextDownload ==
    \/ CallPrepareChart
    \/ DownloadUpstreamChange

SpecDownload == InitDownload /\ [][NextDownload]_vars

----------------------------------------------------------------------------
(* Manifest requests on their own, with what each of them did: call holds  *)
(* the request, its rewrite options, the number of prepareChart calls it   *)
(* made and the (repository, reference) pairs answered 200 so far, result  *)
(* the response.  The clock stands still, so no record is evicted.         *)

\* The rewrite parameter of a request: "" when the URL has none.
RewriteToggles == {"", "1", "0"}

\* RewriteOptions of a request: the toggle of the URL over the process
\* default, and the configured proxy host.
RequestRewriteOptions(cfg, toggle) ==
    [Enabled |-> IF toggle = "1" THEN TRUE
                 ELSE IF toggle = "0" THEN FALSE ELSE cfg.RewriteDependencies,
     ProxyHost |-> cfg.ProxyHost]

\* GET, lines 139-170: prepareChart is called when the repository or the
\* target is missing, and the flag prepared keeps it from a second call.
GetPrepares(S, repo, target) == IF Found(S.manifests, repo, target) THEN 0 ELSE 1

\* HEAD, lines 193-198: the second lookup calls prepareChart whether or not
\* the first lookup did.
HeadPreparesSecond(repo, target, n1, p1) ==
    IF p1.err = NoErr /\ ~Found(p1.S.manifests, repo, target) THEN n1 + 1 ELSE n1

\* HEAD, lines 184-198
HeadPrepares(S, up, t, repo, target, opts) ==
    HeadPreparesSecond(repo, target,
                       IF repo \notin DOMAIN S.manifests THEN 1 ELSE 0,
                       IF repo \notin DOMAIN S.manifests
                       THEN prepareChart(S, up, t, repo, target, opts)
                       ELSE OkPrepared(S))

\* The prepareChart calls Manifests.Handle makes for a request.
Prepares(S, up, t, method, repo, target, opts) ==
    IF method = "GET" THEN GetPrepares(S, repo, target)
    ELSE HeadPrepares(S, up, t, repo, target, opts)

ServeRepos == {<<"h1", "/", "c">>}

InitServe ==
    /\ manifests = <<>>
    /\ blobs = <<>>
    /\ cache = <<>>
    /\ now = 0
    /\ upstream \in [Hosts -> UpstreamModes]
    /\ \A h \in Hosts : ServeRepos \cap {<<h, "/", "c">>} = {} => upstream[h] = "ok"
    /\ config \in [RewriteDependencies : BOOLEAN, ProxyHost : {<<"proxy.example">>}]
    /\ tsInput = NoChartVersion
    /\ stamp = NoStamp
    /\ call = [fn |-> "none", served |-> {}]
    /\ result = NoResult

\* One manifest request, from the lock to the response.
ServeRequest ==
    \E method \in {"GET", "HEAD"}, repo \in ServeRepos, ref \in ReqRefs,
       toggle \in RewriteToggles :
        /\ Commit(Handle(Stores, upstream, now, method, ManifestURL(repo, ref),
                         RequestRewriteOptions(config, toggle)))
        /\ call' = [fn |-> "Handle", method |-> method, repo |-> repo, ref |-> ref,
                    opts |-> RequestRewriteOptions(config, toggle),
                    prepares |-> Prepares(Stores, upstream, now, method, repo, TargetOf(ref),
                                          RequestRewriteOptions(config, toggle)),
                    repeat |-> <<repo, ref>> \in call.served,
                    served |-> call.served \cup
                        IF Handle(Stores, upstream, now, method, ManifestURL(repo, ref),
                                  RequestRewriteOptions(config, toggle)).resp.status = 200
                        THEN {<<repo, ref>>} ELSE {}]
        /\ result' = [set |-> TRUE,
                      val |-> Handle(Stores, upstream, now, method, ManifestURL(repo, ref),
                                     RequestRewriteOptions(config, toggle)).resp]
        /\ UNCHANGED <<now, upstream, config, tsInput, stamp>>

\* The host of the requested repository starts or stops answering properly.
ServeUpstreamChange ==
    \E repo \in ServeRepos, mode \in UpstreamModes :
        /\ upstream[repo[1]] # mode
        /\ upstream' = [upstream EXCEPT ![repo[1]] = mode]
        /\ UNCHANGED <<manifests, blobs, cache, now, config, tsInput, stamp, call, result>>

NextServe ==
    \/ ServeRequest
    \/ ServeUpstreamChange

SpecServe == InitServe /\ [][NextServe]_vars

----------------------------------------------------------------------------
(* The goroutines of the process and the two mutexes, Manifests.lock and   *)
(* the lock of the memory blob handler: a manifest request (GET or HEAD),  *)
(* a tags request, a catalog request listing the local repositories, a     *)
(* blob request and the eviction goroutine, each at a position of its      *)
(* code.  Upstream fetches return in the end.  call holds the positions,   *)
(* the owner of each mutex, the prepareChart calls of the request in the   *)
(* lock, the blob references the running scan has still to delete, and     *)
(* whether the root context is cancelled.                                  *)

Requests == {"manifest", "tags", "catalog", "blob"}
Procs == Requests \cup {"evict"}

\* Blob references one eviction scan deletes at most.
MaxRefs == 2

\* prepareChart calls one request makes at most: two in the HEAD branch of
\* Handle, one in HandleTags.
PrepareLimit(p) == IF p = "manifest" THEN 2 ELSE 1

\* Positions at which the repository map is read or written.
MapAccess == {"lookup", "write", "list", "scan", "delete", "deleting"}

\* Positions inside prepareChart.
InPrepare == {"index", "tarball", "pushBlob", "put", "write"}

InitLocks ==
    /\ Idle
    /\ call = [fn |-> "serve",
               pc |-> [p \in Procs |-> IF p = "evict" THEN "select" ELSE "idle"],
               lock |-> "none", blobLock |-> "none",
               prepares |-> 0, refs |-> 0, cancelled |-> FALSE]
    /\ result = NoResult

Step(c) ==
    /\ call' = c
    /\ UNCHANGED <<manifests, blobs, cache, now, upstream, config, tsInput, stamp, result>>

\* A request arrives: its handler is about to take the mutex it needs.
Arrive(p) ==
    /\ call.pc[p] = "idle" /\ ~call.cancelled
    /\ Step([call EXCEPT !.pc[p] = IF p = "blob" THEN "blobLock" ELSE "lock"])

\* m.lock.Lock() entered without waiting for the holder.
LockStoreNoWait(p) ==
    /\ call.pc[p] = "lock"
    /\ \E n \in 0..MaxRefs :
        /\ p # "evict" => n = 0
        /\ Step([call EXCEPT !.lock = p, !.prepares = 0, !.refs = n,
                             !.pc[p] = IF p = "evict" THEN "scan"
                                       ELSE IF p = "catalog" THEN "list" ELSE "lookup"])

\* m.lock.Lock() of Handle (lines 136, 184), HandleTags (263), HandleCatalog
\* (400) and of the eviction goroutine (68), which finds n references to
\* delete.
LockStore(p) ==
    /\ call.pc[p] = "lock" /\ call.lock = "none"
    /\ \E n \in 0..MaxRefs :
        /\ p # "evict" => n = 0
        /\ Step([call EXCEPT !.lock = p, !.prepares = 0, !.refs = n,
                             !.pc[p] = IF p = "evict" THEN "scan"
                                       ELSE IF p = "catalog" THEN "list" ELSE "lookup"])

\* The lookup of Handle and HandleTags: the record is there, or it is not
\* and prepareChart is called, or it is not and the request is answered.
LookupRecord(p) ==
    /\ call.pc[p] = "lookup"
    /\ \/ Step([call EXCEPT !.pc[p] = "respond"])
       \/ /\ call.prepares < PrepareLimit(p)
          /\ Step([call EXCEPT !.pc[p] = "index", !.prepares = @ + 1])

\* prepareChart: GetIndex returns, with the index or with an error.
IndexReturns(p) ==
    /\ call.pc[p] = "index"
    /\ \E next \in {"tarball", "respond"} : Step([call EXCEPT !.pc[p] = next])

\* prepareChart: download of the tarball returns, with bytes or an error.
TarballReturns(p) ==
    /\ call.pc[p] = "tarball"
    /\ \E next \in {"pushBlob", "respond"} : Step([call EXCEPT !.pc[p] = next])

\* mem.Handler: m.lock.Lock() of Put (InternalDst.Push of a blob), of Get and
\* Stat (the blob handlers) and of Delete (the eviction scan).
BlobLock(p) ==
    /\ call.pc[p] \in {"pushBlob", "blobLock", "delete"} /\ call.blobLock = "none"
    /\ Step([call EXCEPT !.blobLock = p,
                         !.pc[p] = IF p = "blob" THEN "get"
                                   ELSE IF p = "evict" THEN "deleting" ELSE "put"])

\* mem.Handler: the deferred m.lock.Unlock()
BlobUnlock(p) ==
    /\ call.pc[p] \in {"put", "get", "deleting"}
    /\ Step([call EXCEPT !.blobLock = "none",
                         !.pc[p] = IF p = "blob" THEN "idle"
                                   ELSE IF p = "evict" THEN "scan" ELSE "write"])

\* InternalDst.Push of the manifest and InternalDst.Tag: Manifests.Write;
\* prepareChart returns and the handler looks the record up again.
WriteRecord(p) ==
    /\ call.pc[p] = "write"
    /\ Step([call EXCEPT !.pc[p] = "lookup"])

\* The handler returns without its deferred m.lock.Unlock().
RespondKeepsLock(p) ==
    /\ call.pc[p] \in {"respond", "list"}
    /\ Step([call EXCEPT !.pc[p] = "idle", !.prepares = 0])

\* The handler writes its response and returns: the deferred
\* m.lock.Unlock() runs.
Respond(p) ==
    /\ call.pc[p] \in {"respond", "list"}
    /\ Step([call EXCEPT !.pc[p] = "idle", !.lock = "none", !.prepares = 0])

\* case <-ticker.C
Tick ==
    /\ call.pc["evict"] = "select"
    /\ Step([call EXCEPT !.pc["evict"] = "lock"])

\* The scan comes to a reference of an expired record: delHandler.Delete
EvictDelete ==
    /\ call.pc["evict"] = "scan" /\ call.refs > 0
    /\ Step([call EXCEPT !.pc["evict"] = "delete", !.refs = @ - 1])

\* Line 91: ma.lock.Unlock() at the end of the scan
ScanUnlock ==
    /\ call.pc["evict"] = "scan" /\ call.refs = 0
    /\ Step([call EXCEPT !.pc["evict"] = "select", !.lock = "none"])

\* The root context is cancelled.
CancelRoot ==
    /\ ~call.cancelled
    /\ Step([call EXCEPT !.cancelled = TRUE])

\* case <-ctx.Done(): return
EvictExit ==
    /\ call.pc["evict"] = "select" /\ call.cancelled
    /\ Step([call EXCEPT !.pc["evict"] = "exited"])

NextLocks ==
    \/ \E p \in Requests : Arrive(p)
    \/ \E p \in Procs \ {"blob"} : LockStore(p)
    \/ \E p \in {"manifest", "tags"} : LookupRecord(p)
    \/ \E p \in {"manifest", "tags"} : IndexReturns(p)
    \/ \E p \in {"manifest", "tags"} : TarballReturns(p)
    \/ \E p \in {"manifest", "tags", "blob", "evict"} : BlobLock(p)
    \/ \E p \in {"manifest", "tags", "blob", "evict"} : BlobUnlock(p)
    \/ \E p \in {"manifest", "tags"} : WriteRecord(p)
    \/ \E p \in {"manifest", "tags", "catalog"} : Respond(p)
    \/ Tick
    \/ EvictDelete
    \/ ScanUnlock
    \/ CancelRoot
    \/ EvictExit

\* A goroutine that can run does run; a goroutine waiting for a mutex that
\* is released again and again gets it (sync.Mutex hands the lock to a
\* waiter that has been starving); select takes a case that is ready again
\* and again.
SpecLocks ==
    /\ InitLocks /\ [][NextLocks]_vars
    /\ \A p \in Procs : WF_vars(LookupRecord(p) \/ IndexReturns(p) \/ TarballReturns(p)
                                 \/ BlobUnlock(p) \/ WriteRecord(p) \/ Respond(p))
    /\ \A p \in Procs \ {"blob"} : SF_vars(LockStore(p))
    /\ \A p \in Procs : SF_vars(BlobLock(p))
    /\ WF_vars(EvictDelete \/ ScanUnlock)
    /\ SF_vars(EvictExit)

----------------------------------------------------------------------------
(* helper.SemVerReplace on its own, beside the implementation it replaced, *)
(* on strings of up to MaxChars characters.                                *)

MaxChars == 4

SemVerChars == {"_", "+", "1.0.0", "b"}

SemVerStrings == UNION {[1..k -> SemVerChars] : k \in 0..MaxChars}

InitSemVer ==
    /\ Idle
    /\ call \in [fn : {"SemVerReplace"}, semver : SemVerStrings]
    /\ result = NoResult

CallSemVerReplace ==
    /\ call.fn = "SemVerReplace"
    /\ Return([new |-> SemVerReplace(call.semver),
               again |-> SemVerReplace(SemVerReplace(call.semver)),
               guarded |-> SemVerReplaceGuarded(call.semver)])

NextSemVer == CallSemVerReplace

SpecSemVer == InitSemVer /\ [][NextSemVer]_vars

----------------------------------------------------------------------------
(* The eviction loop of NewManifests record by record: one firing of the   *)
(* ticker over stores whose records name blobs that are held, blobs that   *)
(* are gone and digests that do not parse.  ma.lock is held from before    *)
(* the first record to after the last, so the firing is one step.          *)

\* delHandler.Delete(ctx, "", h): the error and the store it leaves
DeleteBlob(bs, h) == [err |-> h \notin DOMAIN bs, bs |-> Delete(bs, h)]

\* The refs of an evicted record, the loop left at the first ref that does
\* not parse or whose blob is not there.
RECURSIVE deleteRefsStopOnError(_, _)
deleteRefsStopOnError(bs, refs) ==
    IF refs = {} THEN bs
    ELSE LET ref == CHOOSE x \in refs : TRUE
         IN  IF ~NewHashOk(ref) \/ DeleteBlob(bs, ref).err THEN bs
             ELSE deleteRefsStopOnError(DeleteBlob(bs, ref).bs, refs \ {ref})

\* Lines 74-86: the refs of an evicted record, one after the other; a ref
\* that does not parse is passed over, an error of Delete is logged.
RECURSIVE deleteRefs(_, _)
deleteRefs(bs, refs) ==
    IF refs = {} THEN bs
    ELSE LET ref == CHOOSE x \in refs : TRUE
         IN  IF ~NewHashOk(ref) THEN deleteRefs(bs, refs \ {ref})
             ELSE deleteRefs(DeleteBlob(bs, ref).bs, refs \ {ref})

\* Lines 69-88: the records still to visit, in the order the maps give them
RECURSIVE evictScan(_, _, _, _)
evictScan(ms, bs, keys, t) ==
    IF keys = {} THEN [manifests |-> ms, blobs |-> bs]
    ELSE LET rk == CHOOSE x \in keys : TRUE
         IN  IF Expired(Record(ms, rk), t)
             THEN evictScan([ms EXCEPT ![rk[1]] = [k \in DOMAIN @ \ {rk[2]} |-> @[k]]],
                            deleteRefs(bs, Record(ms, rk).Refs), keys \ {rk}, t)
             ELSE evictScan(ms, bs, keys \ {rk}, t)

EvictBlobContents ==
    (DigestFromBytes(<<"tgz-c-1">>) :> <<"tgz-c-1">>) @@ (DigestFromBytes(<<"{}">>) :> <<"{}">>)

EvictRefs ==
    {{DigestFromBytes(<<"tgz-c-1">>)},
     {DigestFromBytes(<<"tgz-c-1">>), DigestFromBytes(<<"{}">>)},
     {DigestFromBytes(<<"tgz-c-1">>), <<"nothash">>}}

EvictRecords ==
    [ContentType : {MediaTypeImageManifest}, Blob : {<<"{manifest}">>}, Refs : EvictRefs,
     CreatedAt : 0..MaxTime]

EvictKeys ==
    {<<<<"h1", "/", "c">>, <<"1.0.0">>>>,
     <<<<"h1", "/", "c">>, DigestFromBytes(<<"{manifest}">>)>>,
     <<<<"h2", "/", "c">>, <<"2.0.0">>>>}

\* The Manifest Store holding the records recs, a function of some keys.
StoreOf(recs) ==
    [r \in {rk[1] : rk \in DOMAIN recs} |->
        [k \in {rk[2] : rk \in {x \in DOMAIN recs : x[1] = r}} |-> recs[<<r, k>>]]]

EvictStores == {StoreOf(recs) : recs \in UNION {[K -> EvictRecords] : K \in SUBSET EvictKeys}}

InitEvict ==
    /\ manifests \in EvictStores
    /\ blobs \in {[d \in D |-> EvictBlobContents[d]] : D \in SUBSET DOMAIN EvictBlobContents}
    /\ cache = <<>>
    /\ now \in 0..MaxTime
    /\ upstream = [h \in Hosts |-> "ok"]
    /\ config = [RewriteDependencies |-> FALSE, ProxyHost |-> <<"proxy.example">>]
    /\ tsInput = NoChartVersion
    /\ stamp = NoStamp
    /\ call = [fn |-> "evict"]
    /\ result = NoResult

\* case <-ticker.C, the stores before the firing kept for comparison
EvictScan ==
    /\ call.fn = "evict"
    /\ ~result.set
    /\ manifests' = evictScan(manifests, blobs, Keys(manifests), now).manifests
    /\ blobs' = evictScan(manifests, blobs, Keys(manifests), now).blobs
    /\ result' = [set |-> TRUE, val |-> [manifests |-> manifests, blobs |-> blobs]]
    /\ UNCHANGED <<cache, now, upstream, config, tsInput, stamp, call>>

NextEvict == EvictScan

SpecEvict == InitEvict /\ [][NextEvict]_vars

----------------------------------------------------------------------------
(* Manifests.Handle step by step around its upstream fetches: a GET that   *)
(* misses (request A) takes m.lock and calls prepareChart, which downloads *)
(* the index and the tarball with http.Get(url); meanwhile another GET     *)
(* (request B) and the eviction goroutine want m.lock, the client of A may *)
(* go away (its context is cancelled) and the host may stop answering.     *)
(* call holds the positions of the three and the holder of m.lock; the     *)
(* stores are not looked at here.                                          *)

\* A host that accepts the connection and never answers.
Hang == "hang"

InitCancel ==
    /\ manifests = <<>>
    /\ blobs = <<>>
    /\ cache = <<>>
    /\ now = 0
    /\ upstream \in [Hosts -> UpstreamModes \cup {Hang}]
    /\ upstream["h2"] = "ok"
    /\ config = [RewriteDependencies |-> FALSE, ProxyHost |-> <<"proxy.example">>]
    /\ tsInput = NoChartVersion
    /\ stamp = NoStamp
    /\ call = [fn |-> "Handle", repo |-> <<"h1", "/", "c">>, lock |-> "none",
               pcA |-> "start", pcB |-> "start", pcE |-> "sleep", cancelled |-> FALSE]
    /\ result = NoResult

Untouched == UNCHANGED <<manifests, blobs, cache, config, tsInput, stamp>>

\* manifest.go:135: m.lock.Lock() of request A, then prepareChart
ALock ==
    /\ call.pcA = "start" /\ call.lock = "none"
    /\ call' = [call EXCEPT !.lock = "A", !.pcA = "index"]
    /\ UNCHANGED <<now, upstream, result>> /\ Untouched

\* http.Get of index.yaml returns: it has no context and no timeout, so
\* it returns when the host answers or the connection fails, not before.
AIndexReturns ==
    /\ call.pcA = "index" /\ upstream[call.repo[1]] # Hang
    /\ IF upstream[call.repo[1]] = "ok"
       THEN /\ call' = [call EXCEPT !.pcA = "tarball"]
            /\ UNCHANGED result
       ELSE /\ call' = [call EXCEPT !.pcA = "done", !.lock = "none"]
            /\ result' = [set |-> TRUE, val |-> RegError(404, "NAME_UNKNOWN")]
    /\ UNCHANGED <<now, upstream>> /\ Untouched

\* http.Get of the tarball returns; Handle returns and its deferred
\* m.lock.Unlock() runs.
ATarballReturns ==
    /\ call.pcA = "tarball" /\ upstream[call.repo[1]] # Hang
    /\ call' = [call EXCEPT !.pcA = "done", !.lock = "none"]
    /\ result' = [set |-> TRUE,
                  val |-> IF upstream[call.repo[1]] = "down" THEN RegErrInternal ELSE NoErr]
    /\ UNCHANGED <<now, upstream>> /\ Untouched

\* The client of A goes away: req.Context() is cancelled.  prepareChart
\* hands the context to oras only; download does not take it.
Cancel ==
    /\ call.pcA \in {"index", "tarball"} /\ ~call.cancelled
    /\ call' = [call EXCEPT !.cancelled = TRUE]
    /\ UNCHANGED <<now, upstream, result>> /\ Untouched

\* Request B, a GET of a record that is in the store
BLock ==
    /\ call.pcB = "start" /\ call.lock = "none"
    /\ call' = [call EXCEPT !.lock = "B", !.pcB = "locked"]
    /\ UNCHANGED <<now, upstream, result>> /\ Untouched

BReturns ==
    /\ call.pcB = "locked"
    /\ call' = [call EXCEPT !.lock = "none", !.pcB = "done"]
    /\ UNCHANGED <<now, upstream, result>> /\ Untouched

\* manifest.go:63-68: the ticker fires and the goroutine takes ma.lock
EvictLock ==
    /\ call.pcE = "sleep" /\ call.lock = "none" /\ now < MaxTime
    /\ call' = [call EXCEPT !.lock = "evict", !.pcE = "scan"]
    /\ now' = now + 1
    /\ UNCHANGED <<upstream, result>> /\ Untouched

\* manifest.go:90: ma.lock.Unlock()
EvictUnlock ==
    /\ call.pcE = "scan"
    /\ call' = [call EXCEPT !.lock = "none", !.pcE = "sleep"]
    /\ UNCHANGED <<now, upstream, result>> /\ Untouched

\* The host of A's chart changes its answers, or stops answering for good.
HostChange ==
    /\ upstream[call.repo[1]] # Hang
    /\ \E mode \in (UpstreamModes \cup {Hang}) \ {upstream[call.repo[1]]} :
          upstream' = [upstream EXCEPT ![call.repo[1]] = mode]
    /\ UNCHANGED <<now, call, result>> /\ Untouched

NextCancel ==
    \/ ALock
    \/ AIndexReturns
    \/ ATarballReturns
    \/ Cancel
    \/ BLock
    \/ BReturns
    \/ EvictLock
    \/ EvictUnlock
    \/ HostChange

\* Goroutines that can run do run; a host that answers does so in the end.
SpecCancel ==
    /\ InitCancel /\ [][NextCancel]_vars
    /\ WF_vars(ALock \/ AIndexReturns \/ ATarballReturns)
    /\ WF_vars(BLock \/ BReturns)
    /\ WF_vars(EvictUnlock)

\* The entry SetWithTTL stores for an outcome at time t.
EntryOf(c, err, t) ==
    [c |-> c, err |-> err,
     expire |-> t + (IF err # "" THEN IndexErrorCacheTTl ELSE IndexCacheTTL)]

\* A step that is a call of GetIndex(P).
GetIndexStep(P) ==
    /\ call'.fn = "GetIndex" /\ call'.repoURLPath = P
    /\ now' = now /\ upstream' = upstream

\* C23: a call of GetIndex(P) that finds no unexpired entry leaves an entry
\* for P holding the index or the error it returns, expiring IndexCacheTTL
\* after the call on success and IndexErrorCacheTTl after it on failure (and
\* the bytes it downloaded are cached under the URL in the same way); a call
\* that finds an unexpired entry returns the stored index and error, leaves
\* the cache as it is, and its outcome is the same whatever the upstream
\* hosts would answer.
C23_GetIndexCachesBothOutcomes ==
    [][\A P \in IndexKeys : GetIndexStep(P) =>
          IF CacheHit(cache, P, now)
          THEN /\ cache' = cache
               /\ result'.val.c = cache[P].c /\ result'.val.err = cache[P].err
               /\ \A up \in [Hosts -> UpstreamModes] :
                     GetIndex(cache, up, P, now) = GetIndex(cache, upstream, P, now)
          ELSE /\ P \in DOMAIN cache'
               /\ cache'[P] = EntryOf(result'.val.c, result'.val.err, now)
               /\ IndexURL(P) \in DOMAIN cache'
               /\ ~CacheHit(cache, IndexURL(P), now) =>
                     cache'[IndexURL(P)] = EntryOf(download(upstream, IndexURL(P)).c,
                                                   download(upstream, IndexURL(P)).err, now)
               /\ \A k \in DOMAIN cache \ {P, IndexURL(P)} :
                     k \in DOMAIN cache' /\ cache'[k] = cache[k]
    ]_vars

\* C23 happens: a call of GetIndex has returned a stored error of an
\* unexpired entry while the host was answering properly again.
C23_Witness ==
    /\ result.set /\ call.fn = "GetIndex"
    /\ result.val.hit /\ result.val.err # ""
    /\ result.val.up[call.repoURLPath[1]] = "ok"

\* A step that is a call of prepareChart(repo, reference).
PrepareStep(repo, reference) ==
    /\ call'.fn = "prepareChart" /\ call'.repo = repo /\ call'.reference = reference
    /\ now' = now /\ upstream' = upstream

\* The versions of the chart in the index that the reference names: all of
\* them for no reference, else those of the reference's version core.
Named(index, chart, reference) ==
    IF chart \notin DOMAIN index.Entries THEN {}
    ELSE {i \in 1..Len(index.Entries[chart]) :
            reference # <<>> =>
                /\ ValidSemver(SemVerReplace(reference))
                /\ SemverCore(index.Entries[chart][i].Version) =
                      SemverCore(SemVerReplace(reference))}

\* C24: a call of prepareChart for which the index of the host cannot be
\* had returns 404 NAME_UNKNOWN; one for which the index lists no version of
\* the chart that the reference names, or lists such versions with no
\* download URL, returns 404 NOT FOUND; both leave the Manifest Store and
\* the Blob Store as they were.
C24_PrepareChartNotFound ==
    [][\A repo \in PrepareRepos, reference \in PrepareRefs :
          PrepareStep(repo, reference) =>
              LET gi == GetIndex(cache, upstream, <<repo[1]>>, now)
                  chart == <<repo[3]>>
                  named == Named(gi.c, chart, reference)
              IN  /\ gi.err # "" =>
                        /\ result'.val = RegError(404, "NAME_UNKNOWN")
                        /\ manifests' = manifests /\ blobs' = blobs
                  /\ (gi.err = "" /\ (named = {} \/ \A i \in named :
                                                        gi.c.Entries[chart][i].URLs = <<>>)) =>
                        /\ result'.val = RegError(404, "NOT FOUND")
                        /\ manifests' = manifests /\ blobs' = blobs
    ]_vars

\* C24 happens: prepareChart has answered 404 NOT FOUND for the chart h2
\* lists without a URL, the stores holding a chart prepared before.
C24_Witness ==
    /\ result.set /\ call.fn = "prepareChart"
    /\ call.repo = <<"h2", "/", "b">>
    /\ result.val = RegError(404, "NOT FOUND")
    /\ manifests # <<>> /\ blobs # <<>>

\* The n parameter is absent or a count.
ValidCount(nStr) == nStr = "" \/ (AtoiOk(nStr) /\ Atoi(nStr) >= 0)

\* C25: a GET of the catalog whose n parameter is neither absent nor a
\* count (it is not a number, or it is negative) is answered with 400
\* BAD_REQUEST and leaves the Manifest Store and the Blob Store as they
\* were.
C25_BadCountIsBadRequest ==
    (/\ result.set /\ call.fn = "v2" /\ call.method = "GET"
     /\ result.val.route = "catalog" /\ ~ValidCount(call.nStr)) =>
        /\ result.val.resp.status = 400
        /\ result.val.resp.code = "BAD_REQUEST"
        /\ manifests = <<>> /\ blobs = <<>>

\* The keys generated from the fields of the metadata.
StandardKeys == {AnnotationTitle, AnnotationVersion, AnnotationDescription, AnnotationURL,
                 AnnotationSource, AnnotationAuthors, AnnotationCreated}

\* got[key] of a Go map: the empty string for a key that is absent.
Lookup(m, key) == IF key \in DOMAIN m THEN m[key] ELSE <<>>

\* The value of a key that custom annotations may replace.
Overridable(meta, key, value) ==
    IF key \in DOMAIN meta.Annotations THEN meta.Annotations[key] ELSE value

\* C26: the annotations generated from metadata M and a creation time have
\* title = M.name, version = M.version and created = the time in RFC 3339,
\* whatever custom annotations M has; every custom annotation under another
\* key than title and version is in the result with its value; from nil
\* metadata only created is generated.
C26_GeneratedAnnotations ==
    (result.set /\ call.fn = "generateOCIAnnotations") =>
        IF call.meta.isNil
        THEN result.val = (AnnotationCreated :> FormatRFC3339(call.creationTime))
        ELSE /\ Lookup(result.val, AnnotationTitle) = call.meta.Name
             /\ Lookup(result.val, AnnotationVersion) = call.meta.Version
             /\ Lookup(result.val, AnnotationCreated) = FormatRFC3339(call.creationTime)
             /\ \A k \in DOMAIN call.meta.Annotations \ {AnnotationTitle, AnnotationVersion} :
                   Lookup(result.val, k) = call.meta.Annotations[k]

\* C26 as amended: title = M.name and version = M.version whatever custom
\* annotations M has; created is the time in RFC 3339 unless M has a custom
\* annotation under the created key, which replaces it as it replaces
\* description, url (M.home), source (the first of M.sources) and authors;
\* every custom annotation under another key than title and version is in
\* the result with its value, and nothing else is; from nil metadata only
\* created is generated.
C26_GeneratedAnnotationsAmended ==
    (result.set /\ call.fn = "generateOCIAnnotations") =>
        IF call.meta.isNil
        THEN result.val = (AnnotationCreated :> FormatRFC3339(call.creationTime))
        ELSE LET M == call.meta
                 got == result.val
             IN  /\ Lookup(got, AnnotationTitle) = M.Name
                 /\ Lookup(got, AnnotationVersion) = M.Version
                 /\ Lookup(got, AnnotationCreated) =
                       Overridable(M, AnnotationCreated, FormatRFC3339(call.creationTime))
                 /\ Lookup(got, AnnotationDescription) =
                       Overridable(M, AnnotationDescription, M.Description)
                 /\ Lookup(got, AnnotationURL) = Overridable(M, AnnotationURL, M.Home)
                 /\ Lookup(got, AnnotationSource) =
                       Overridable(M, AnnotationSource,
                                   IF M.Sources = <<>> THEN <<>> ELSE M.Sources[1])
                 /\ Lookup(got, AnnotationAuthors) =
                       Overridable(M, AnnotationAuthors, AuthorsOf(M.Maintainers))
                 /\ \A k \in DOMAIN M.Annotations \ {AnnotationTitle, AnnotationVersion} :
                       Lookup(got, k) = M.Annotations[k]
                 /\ DOMAIN got \subseteq (StandardKeys \cup DOMAIN M.Annotations)

\* C26 happens: annotations have been generated for a chart whose custom
\* annotations are keyed title and created; the title is the chart's name
\* and created is the custom value.
C26_Witness ==
    /\ result.set /\ call.fn = "generateOCIAnnotations"
    /\ ~call.meta.isNil /\ call.meta.Name = <<"c">>
    /\ DOMAIN call.meta.Annotations = {AnnotationTitle, AnnotationCreated}
    /\ result.val[AnnotationTitle] = <<"c">>
    /\ result.val[AnnotationCreated] = <<"custom", AnnotationCreated>>

\* The wall clock reading t as a time value.
WallTime(t) == [hi |-> 0, lo |-> t, nsec |-> 0]

\* The versions the index of the record's host lists for the record's
\* chart that a record under this key can have been prepared from.
ResolvedVersions(rk) ==
    LET host == rk[1][1]
        chart == <<rk[1][Len(rk[1])]>>
        vs == IF chart \in DOMAIN IndexYaml(host).Entries
              THEN IndexYaml(host).Entries[chart] ELSE <<>>
    IN  {vs[i] : i \in {i \in 1..Len(vs) :
                            Contains(rk[2], "sha256:") \/ TrimPrefix(vs[i].Version, "v") = rk[2]}}

\* C27: every record prepareChart has written to the Manifest Store has
\* for created_at the deterministic timestamp of the chart version it was
\* prepared from (the index's Created, or the one derived from the hash of
\* name and version), not the time of the preparation.
C27_CreatedAtIsDeterministic ==
    \A rk \in Keys(manifests) :
        \E cv \in ResolvedVersions(rk) :
            WallTime(Record(manifests, rk).CreatedAt) = getDeterministicCreatedTimestamp(cv)

\* The records of a store with created_at + CacheTTL < now.
Due(ms, t) == {rk \in Keys(ms) : Record(ms, rk).CreatedAt + CacheTTL < t}

\* C28: a firing of the eviction ticker removes from the Manifest Store
\* the records with created_at + CacheTTL < now and no other, leaving the
\* others as they were; every digest in the refs of a removed record that
\* parses is gone from the Blob Store afterwards, also when another ref of
\* the scan did not parse or named a blob that was not there, and no other
\* blob is touched.
C28_EvictionScan ==
    (result.set /\ call.fn = "evict") =>
        LET before == result.val
            due == Due(before.manifests, now)
        IN  /\ Keys(manifests) = Keys(before.manifests) \ due
            /\ \A rk \in Keys(manifests) : Record(manifests, rk) = Record(before.manifests, rk)
            /\ DOMAIN blobs =
                  DOMAIN before.blobs \
                     {d \in UNION {Record(before.manifests, rk).Refs : rk \in due} : NewHashOk(d)}
            /\ \A d \in DOMAIN blobs : blobs[d] = before.blobs[d]

\* C28 happens: a firing has removed two records, one naming a digest that
\* does not parse and both naming the same blob (the second Delete of it
\* fails), has deleted the blobs of both and has kept the third record.
C28_Witness ==
    /\ result.set /\ call.fn = "evict"
    /\ Cardinality(Due(result.val.manifests, now)) = 2
    /\ \E rk \in Due(result.val.manifests, now) :
          <<"nothash">> \in Record(result.val.manifests, rk).Refs
    /\ \E rk \in Due(result.val.manifests, now) :
          DigestFromBytes(<<"{}">>) \in Record(result.val.manifests, rk).Refs
    /\ DOMAIN result.val.blobs = DOMAIN EvictBlobContents
    /\ blobs = <<>>
    /\ Cardinality(Keys(manifests)) = 1

\* C29: after the index has been loaded, a chart's version list holds no
\* entry that fails validation, wherever in the list it stood, holds no
\* entry twice, and holds no entry with an empty apiVersion.
C29_InvalidEntriesDropped ==
    (result.set /\ call.fn = "validateEntries") =>
        LET cvs == result.val
            held == {i \in 1..Len(cvs) : ~cvs[i].isNil}
        IN  /\ \A i \in held : Validate(cvs[i])
            /\ \A i, j \in held : cvs[i].id = cvs[j].id => i = j
            /\ \A i \in held : cvs[i].APIVersion # ""

\* C30: once the context of a request is cancelled while its prepareChart
\* waits for the upstream, the request returns and m.lock is free of it in
\* the end, whatever the upstream does.
C30_CancellationReleasesLock ==
    call.fn = "Handle" /\ call.cancelled ~> (call.pcA = "done" /\ call.lock # "A")

\* C38: SemVerReplace returns a string of the length of its input with
\* "+" where the input has "_" and the input's character everywhere else;
\* applied to its own result it returns that result; and the guarded
\* implementation returns the same string for the same input.
C38_SemVerReplace ==
    (result.set /\ call.fn = "SemVerReplace") =>
        /\ Len(result.val.new) = Len(call.semver)
        /\ \A i \in 1..Len(call.semver) :
              result.val.new[i] = IF call.semver[i] = "_" THEN "+" ELSE call.semver[i]
        /\ ~Contains(call.semver, "_") => result.val.new = call.semver
        /\ result.val.again = result.val.new
        /\ result.val.guarded = result.val.new

\* C38 happens: a version with two "_" has been converted, both are "+".
C38_Witness ==
    /\ result.set /\ call.fn = "SemVerReplace"
    /\ call.semver = <<"1.0.0", "_", "b", "_">>
    /\ result.val.new = <<"1.0.0", "+", "b", "+">>

\* C33: a single manifest GET or HEAD request calls prepareChart at most
\* once.
C33_PrepareChartOncePerRequest ==
    call.fn = "Handle" => call.prepares <= 1

\* C35: a request for a (repository, reference) that an earlier request got
\* answered 200, the record still being in the store, makes no prepareChart
\* call (and so no upstream fetch), whatever the form of the reference.
C35_RepeatedRequestServedFromStore ==
    (call.fn = "Handle" /\ call.repeat) => call.prepares = 0

\* The layer digest written in a manifest body by Pack.
LayerDigest(body) ==
    SubSeq(body, (CHOOSE i \in 1..Len(body) : body[i] = "layer") + 1,
                 (CHOOSE i \in 1..Len(body) : body[i] = "created") - 3)

\* The archive h1 serves for a reference (IndexYaml: 2.0.0 is c-2.tgz, 1.0.0+b
\* is c-1.tgz).
UpstreamTarball(ref) == Tarball(IF TargetOf(ref) = <<"2.0.0">> THEN "c-2.tgz" ELSE "c-1.tgz")

\* The layer a request with the options opts is to get for a reference.
LayerFor(ref, opts) ==
    rewritten(UpstreamTarball(ref), opts,
              rewriteChartDependencies(UpstreamTarball(ref), opts.ProxyHost))

\* C32: the manifest a GET returns has as its layer the rewritten archive when
\* the request's effective rewrite option is on and the archive as served
\* upstream when it is off, whatever requests came before.
C32_RewriteOverrideHonoured ==
    (call.fn = "Handle" /\ call.method = "GET" /\ result.val.status = 200) =>
        LayerDigest(result.val.body) = DigestFromBytes(LayerFor(call.ref, call.opts))

\* What GetIndex(P) returns when the host is asked now.
Fresh(P) == downloadIndex(<<>>, upstream, P, now)

\* C36: when the last call of GetIndex(P) failed, a call of GetIndex(P) that
\* finds the error's entry expired (IndexErrorCacheTTl has run out) contacts
\* the upstream: it returns what the host answers now, a repaired index
\* included.
C36_ErrorRetriedAfterErrorTTL ==
    [][\A P \in IndexKeys :
          (/\ call.fn = "GetIndex" /\ call.repoURLPath = P /\ result.val.err # ""
           /\ GetIndexStep(P)
           /\ ~CacheHit(cache, P, now))
          => (result'.val.c = Fresh(P).c /\ result'.val.err = Fresh(P).err)
    ]_vars

\* C37: a call of prepareChart made while the host of the chart fails every
\* request or answers every request with a non-success status returns an
\* error and leaves the Manifest Store and the Blob Store as they were.
C37_RecordOnlyFromServedTarball ==
    [][\A repo \in PrepareRepos, reference \in PrepareRefs :
          (PrepareStep(repo, reference) /\ upstream[repo[1]] \in {"down", NotFound}) =>
              /\ result'.val # NoErr
              /\ manifests' = manifests
              /\ blobs' = blobs
    ]_vars

\* C31: a goroutine at a position that reads or writes the repository map
\* (the lookups of the manifest and tags handlers, the local listing of the
\* catalog, the Write of InternalDst.Push and Tag inside prepareChart, the
\* eviction scan) holds Manifests.lock, and at most one goroutine is inside
\* prepareChart.
C31_StoreGuardedByMutex ==
    call.fn = "serve" =>
        /\ \A p \in Procs : call.pc[p] \in MapAccess => call.lock = p
        /\ \A p \in Procs : call.pc[p] \in InPrepare => call.lock = p
        /\ Cardinality({p \in Procs : call.pc[p] \in InPrepare}) <= 1

\* C31 happens: the manifest handler is inside prepareChart, writing the
\* record, while the tags handler, the catalog handler and the eviction
\* goroutine wait for the mutex.
C31_Witness ==
    /\ call.fn = "serve"
    /\ call.pc["manifest"] = "write"
    /\ call.pc["tags"] = "lock" /\ call.pc["catalog"] = "lock" /\ call.pc["evict"] = "lock"

\* Positions at which a goroutine is in no handler and no scan.
AtRest == {"idle", "select", "exited"}

\* C34: with upstream fetches that return, every request and every eviction
\* scan that has started comes to its end holding no mutex; a goroutine
\* holding the mutex of the Blob Store on behalf of the Manifest Store holds
\* Manifests.lock already and none waits for Manifests.lock while holding the
\* Blob Store's; and once the root context is cancelled the eviction
\* goroutine returns, not holding Manifests.lock.
C34_NoDeadlock ==
    /\ \A p \in Procs :
          (call.fn = "serve" /\ call.pc[p] \notin AtRest)
              ~> (call.pc[p] \in AtRest /\ call.lock # p /\ call.blobLock # p)
    /\ [](call.fn = "serve" =>
             \A p \in Procs : /\ (call.blobLock = p /\ p # "blob") => call.lock = p
                              /\ call.pc[p] = "lock" => call.blobLock # p
                              /\ call.pc[p] \in AtRest => (call.lock # p /\ call.blobLock # p))
    /\ (call.fn = "serve" /\ call.cancelled)
           ~> (call.pc["evict"] = "exited" /\ call.lock # "evict")

\* C34 happens: after the cancellation of the root context the eviction scan
\* is deleting a blob, holding both mutexes, while the manifest request waits
\* for Manifests.lock and the blob request for the Blob Store's.
C34_Witness ==
    /\ call.fn = "serve"
    /\ call.cancelled
    /\ call.pc["evict"] = "deleting" /\ call.lock = "evict" /\ call.blobLock = "evict"
    /\ call.pc["manifest"] = "lock"
    /\ call.pc["blob"] = "blobLock"

====
